---- MODULE Spec2Model ----
(***************************************************************************)
(* Record persistence and identity management of the record keeping        *)
(* system (record_keeper.py, with the web callers of app.py).              *)
(*                                                                         *)
(* Strings with structure are modelled by their parts:                     *)
(*   - a record id "<LABEL> - <digits>" is [label, digits], digits being   *)
(*     the sequence of decimal digits after the " - " separator;           *)
(*   - the counter file is the sequence of decimal digits it holds;        *)
(*   - a date string is [fmt, y, m, d, ht, t]: the notation it is written  *)
(*     in, the numbers it holds, whether a time part is written, and the   *)
(*     time part <<hour, minute, second>>.                                 *)
(* The queries look inside the strings: for them a string is written out   *)
(* as the sequence of the ASCII codes of its characters (IdText, DateText, *)
(* FieldText).                                                             *)
(***************************************************************************)
EXTENDS Integers, Sequences, FiniteSets, TLC

(***************************************************************************)
(* Bounds of the model.                                                    *)
(***************************************************************************)
MaxCounter == 3
MaxRecords == 2
MaxRows == 1
MaxInitRecords == 1
MaxInitCounter == 2

(***************************************************************************)
(* Decimal text of integers: str(n), f"{n:03d}" and int(text).             *)
(***************************************************************************)
RECURSIVE Digits(_)
Digits(n) == IF n < 10 THEN <<n>> ELSE Append(Digits(n \div 10), n % 10)

RECURSIVE ZeroPad(_, _)
ZeroPad(ds, width) == IF Len(ds) >= width THEN ds ELSE ZeroPad(<<0>> \o ds, width)

IdWidth == 3

Format03d(n) == ZeroPad(Digits(n), IdWidth)

RECURSIVE ParseInt(_)
ParseInt(ds) ==
    IF Len(ds) = 1 THEN ds[1]
    ELSE 10 * ParseInt(SubSeq(ds, 1, Len(ds) - 1)) + ds[Len(ds)]

\* int(text) raises ValueError on text that is not a decimal number
IsIntText(ds) == Len(ds) > 0

(***************************************************************************)
(* Record ids.                                                             *)
(***************************************************************************)
NewLabel == "MAYOR'S OFFICE"
OldLabel == "LGU_TNGLN-MAYOR'S OFFICE"

NoId == [label |-> "", digits |-> <<>>]

MkId(label, n) == [label |-> label, digits |-> Format03d(n)]

\* record.id.split(' - '): neither label contains the separator
IdParts(id) == <<id.label, id.digits>>

\* the numeric suffix of an id, 0 when it has none
Suffix(id) == IF IsIntText(id.digits) THEN ParseInt(id.digits) ELSE 0

(***************************************************************************)
(* Dates.                                                                  *)
(***************************************************************************)
NoTime == <<0, 0, 0>>
DateNone   == [fmt |-> "none",   y |-> 0, m |-> 0, d |-> 0, ht |-> FALSE, t |-> NoTime]
DateBlank  == [fmt |-> "blank",  y |-> 0, m |-> 0, d |-> 0, ht |-> FALSE, t |-> NoTime]
NoDate     == [fmt |-> "nodate", y |-> 0, m |-> 0, d |-> 0, ht |-> FALSE, t |-> NoTime]
Now        == [fmt |-> "iso", y |-> 2025, m |-> 1, d |-> 7, ht |-> TRUE, t |-> <<10, 0, 0>>]

\* truth value of a date argument: None and "" are false
Truthy(date) == date.fmt \notin {"none", "blank"}

(***************************************************************************)
(* Status values.                                                          *)
(***************************************************************************)
Pending == "Pending"
Completed == "Completed"
Done == "Done"
Absent == "<absent>"

(***************************************************************************)
(* Calendar checks done by datetime.strptime.                              *)
(***************************************************************************)
IsLeap(y) == (y % 4 = 0 /\ y % 100 # 0) \/ y % 400 = 0

DaysIn(y, m) ==
    IF m \in {4, 6, 9, 11} THEN 30
    ELSE IF m = 2 THEN (IF IsLeap(y) THEN 29 ELSE 28)
    ELSE 31

ValidDate(y, m, d) == m \in 1..12 /\ y >= 1 /\ d >= 1 /\ d <= DaysIn(y, m)

ValidTime(t) == t[1] \in 0..23 /\ t[2] \in 0..59 /\ t[3] \in 0..59

\* strftime('%Y-%m-%d') when the parsed time is midnight, else with ' %H:%M:%S'
IsoOut(y, m, d, t) ==
    [fmt |-> "iso", y |-> y, m |-> m, d |-> d, ht |-> (t # NoTime), t |-> t]

(***************************************************************************)
(* pd.to_datetime fallback: it reads a month name date, an ISO date, a     *)
(* month-first date, and a day-first date when the first number cannot be  *)
(* a month; anything else raises.                                          *)
(***************************************************************************)
PandasParses(date) ==
    /\ date.fmt \in {"iso", "us_slash", "us_dot", "us_dash", "readable"}
    /\ ValidTime(date.t)
    /\ \/ ValidDate(date.y, date.m, date.d)
       \/ /\ date.fmt \in {"us_slash", "us_dot", "us_dash"}
          /\ ValidDate(date.y, date.d, date.m)

PandasToDatetime(date) ==
    IF ValidDate(date.y, date.m, date.d)
    THEN IsoOut(date.y, date.m, date.d, date.t)
    ELSE IsoOut(date.y, date.d, date.m, date.t)

PANDAS_AVAILABLE == TRUE

\* the date patterns of _parse_and_format_date: which notations they match
MatchesDatePattern(date) ==
    \/ date.fmt \in {"us_slash", "us_dot", "iso"}
    \/ date.fmt = "us_dash" /\ ~date.ht

\* a normalisation that gives up on what it cannot parse
ParseAndFormatDate_Strict(date) ==
    IF date.fmt \in {"none", "blank", "nan"} THEN DateNone
    ELSE IF /\ MatchesDatePattern(date)
            /\ ValidDate(date.y, date.m, date.d)
            /\ ValidTime(date.t)
         THEN IsoOut(date.y, date.m, date.d, date.t)
    ELSE IF PANDAS_AVAILABLE /\ PandasParses(date) THEN PandasToDatetime(date)
    ELSE DateNone

ParseAndFormatDate(date) ==
    IF date.fmt \in {"none", "blank", "nan"} THEN DateNone
    ELSE IF /\ MatchesDatePattern(date)
            /\ ValidDate(date.y, date.m, date.d)
            /\ ValidTime(date.t)
         THEN IsoOut(date.y, date.m, date.d, date.t)
    ELSE IF PANDAS_AVAILABLE /\ PandasParses(date) THEN PandasToDatetime(date)
    ELSE date

IsReadableFormat(date) == date.fmt = "readable"

\* strptime('%B %d, %Y') and '%I:%M %p'; the original string on ValueError
ConvertReadableToIso(date) ==
    IF ValidDate(date.y, date.m, date.d) /\ ValidTime(date.t)
    THEN [fmt |-> "iso", y |-> date.y, m |-> date.m, d |-> date.d,
          ht |-> date.ht, t |-> date.t]
    ELSE date

\* a format check that knows the slash notation only
NeedsDateFormatUpdate_SlashOnly(date) == date.fmt = "us_slash"

NeedsDateFormatUpdate(date) == date.fmt \in {"us_slash", "us_dot"}

UpdatedDate(date) ==
    IF ~Truthy(date) \/ date = NoDate THEN date
    ELSE IF IsReadableFormat(date) THEN
        LET new_date == ConvertReadableToIso(date)
        IN IF Truthy(new_date) /\ new_date # date THEN new_date ELSE date
    ELSE IF NeedsDateFormatUpdate(date) THEN
        LET new_date == ParseAndFormatDate(date)
        IN IF Truthy(new_date) /\ new_date # date THEN new_date ELSE date
    ELSE date

(***************************************************************************)
(* State.                                                                  *)
(*   records  RecordKeeper.records, the in-memory collection               *)
(*   idc      DocumentRecord._id_counter, the class-level counter          *)
(*   recFile  the record file: whether it exists, the dicts it holds, and  *)
(*            whether its text is corrupt (json.load raises on it)         *)
(*   ctrFile  the counter file: whether it exists and its text             *)
(*   lastOp   the store operation that completed last                      *)
(*   ret      what that operation returned or reported: its boolean        *)
(*            result, for add the id of the record it returned, whether    *)
(*            the call raised an exception instead of returning, the       *)
(*            record and error counts a bulk load or a migration reports,  *)
(*            and the reason a bulk load prints when it returns False      *)
(*   hIssued  the suffixes add has issued since the collection was last    *)
(*            emptied, reset, replaced or bulk-loaded                      *)
(*   hPrevAdd the suffix of the latest add, 0 once a delete-to-empty, a    *)
(*            reset, a replace-mode bulk load or a reload has intervened   *)
(*   hBulk    whether an additive bulk load ran since the latest add       *)
(*   hLoadCtr the value the counter file held when the store was loaded,   *)
(*            kept until the next operation completes                      *)
(*   pc, rd, rid  the web requests in flight (concurrent execution only):  *)
(*            each one's position, the counter value it read and the id    *)
(*            or index it holds                                            *)
(***************************************************************************)
VARIABLES records, idc, recFile, ctrFile, lastOp, ret,
          hIssued, hPrevAdd, hBulk, hLoadCtr, pc, rd, rid,
          records2, recFile2,
          current_user, session, connected_clients, update_queue, delivered

store == <<records, idc, recFile, ctrFile>>
hist == <<hIssued, hPrevAdd, hBulk, hLoadCtr>>
web == <<pc, rd, rid>>

\* a second RecordKeeper of the same process: its collection and its
\* record file
other == <<records2, recFile2>>

\* app.py: auth_manager.current_user, the session of each request, the
\* connected event stream clients, the update queue, and what each client
\* has been sent
app == <<current_user, session, connected_clients, update_queue, delivered>>

vars == <<records, idc, recFile, ctrFile, lastOp, ret,
          hIssued, hPrevAdd, hBulk, hLoadCtr, pc, rd, rid,
          records2, recFile2,
          current_user, session, connected_clients, update_queue, delivered>>

(***************************************************************************)
(* DocumentRecord.                                                         *)
(***************************************************************************)
\* a _generate_id that formats the next number without storing it
GenerateId_NotStored(ctr) == [ctr |-> ctr, id |-> MkId(NewLabel, ctr + 1)]

\* _generate_id from counter value ctr: the counter after it and the id
GenerateId(ctr) == [ctr |-> ctr + 1, id |-> MkId(NewLabel, ctr + 1)]

\* a constructor that keeps the status it is given
NormalStatus_AsGiven(status) == status

NormalStatus(status) == IF status \in {Done, Completed} THEN Completed ELSE Pending

\* DocumentRecord.__init__ run with the class counter at ctr: the record
\* built and the counter afterwards
DocumentRecordInit(sender, subject, destination, date, record_id, auto_date, status, ctr) ==
    LET gen == IF record_id # NoId THEN [ctr |-> ctr, id |-> record_id]
               ELSE GenerateId(ctr)
    IN [ctr |-> gen.ctr,
        rec |-> [id          |-> gen.id,
                 date        |-> IF Truthy(date) THEN date
                                 ELSE IF auto_date THEN Now ELSE NoDate,
                 sender      |-> sender,
                 subject     |-> subject,
                 destination |-> destination,
                 status      |-> NormalStatus(status)]]

ToDict(r) ==
    [id |-> r.id, date |-> r.date, sender |-> r.sender, subject |-> r.subject,
     destination |-> r.destination, status |-> r.status]

\* from_dict: data.get('status', 'Pending'), the id taken from the dict
FromDict(data) ==
    DocumentRecordInit(data.sender, data.subject, data.destination, data.date,
                       data.id, TRUE,
                       IF data.status = Absent THEN Pending ELSE data.status,
                       0).rec

(***************************************************************************)
(* Persistence.                                                            *)
(***************************************************************************)
NoRecFile == [exists |-> FALSE, data |-> <<>>, corrupt |-> FALSE]
NoCtrFile == [exists |-> FALSE, text |-> <<>>]

\* a record file json.load cannot read
CorruptRecFile == [exists |-> TRUE, data |-> <<>>, corrupt |-> TRUE]

\* a counter file left empty by an interrupted write
EmptyCtrFile == [exists |-> TRUE, text |-> <<>>]

\* save_records: json.dump of every record's to_dict
SaveRecords(recs) ==
    [exists |-> TRUE, data |-> [i \in 1..Len(recs) |-> ToDict(recs[i])],
     corrupt |-> FALSE]

\* _save_counter: file.write(str(counter))
SaveCounter(ctr) == [exists |-> TRUE, text |-> Digits(ctr)]

(***************************************************************************)
(* Disk writes.  A write either succeeds, or open() is refused and the     *)
(* file stays as it was, or the write stops after open() has truncated the *)
(* file.  w names the outcome of the record file write and of the counter  *)
(* file write of one call.                                                 *)
(***************************************************************************)
NoFault == [rec |-> "ok", ctr |-> "ok"]

\* the outcomes drawn for a faulty disk: a record file write interrupted, a
\* counter file refused
Faults == [rec : {"ok", "torn"}, ctr : {"ok", "denied"}]

\* a save_records that writes nothing
WriteRecords_Skipped(w, recs, old) == old

\* save_records under w: what the record file holds afterwards
WriteRecords(w, recs, old) ==
    IF w.rec = "ok" THEN SaveRecords(recs)
    ELSE IF w.rec = "torn" THEN CorruptRecFile
    ELSE old

\* _save_counter under w: what the counter file holds afterwards
WriteCounter(w, ctr, old) ==
    IF w.ctr = "ok" THEN SaveCounter(ctr)
    ELSE IF w.ctr = "torn" THEN EmptyCtrFile
    ELSE old

\* a _load_counter that starts from 0 whatever the file holds
LoadCounter_Zero(file) == 0

\* _load_counter: int(file.read().strip()), 0 on ValueError or without a file
LoadCounter(file) ==
    IF file.exists /\ IsIntText(file.text) THEN ParseInt(file.text) ELSE 0

\* a reconcile that counts the records instead of reading their ids
MaxCounterOf_Count(recs) == Len(recs)

\* a reconcile that reads the ids of the current label only
RECURSIVE MaxCounterOf_CurrentLabel(_)
MaxCounterOf_CurrentLabel(recs) ==
    IF recs = <<>> THEN 0
    ELSE LET rest == MaxCounterOf_CurrentLabel(Tail(recs))
             id_parts == IdParts(Head(recs).id)
         IN IF id_parts[1] = NewLabel /\ IsIntText(id_parts[2])
            THEN (IF ParseInt(id_parts[2]) > rest THEN ParseInt(id_parts[2]) ELSE rest)
            ELSE rest

\* the loop of _initialize_counter_from_records: max_counter
RECURSIVE MaxCounterOf(_)
MaxCounterOf(recs) ==
    IF recs = <<>> THEN 0
    ELSE LET rest == MaxCounterOf(Tail(recs))
             id_parts == IdParts(Head(recs).id)
         IN IF Len(id_parts) = 2 /\ IsIntText(id_parts[2])
            THEN (IF ParseInt(id_parts[2]) > rest THEN ParseInt(id_parts[2]) ELSE rest)
            ELSE rest

\* _update_existing_dates_to_iso
UpdateExistingDatesToIso(recs) ==
    [i \in 1..Len(recs) |-> [recs[i] EXCEPT !.date = UpdatedDate(recs[i].date)]]

\* a constructor whose load_records leaves the counter to the counter file
Construct_NoReconcile(rf, cf) ==
    LET loadable == /\ rf.exists
                    /\ ~rf.corrupt
                    /\ \A i \in 1..Len(rf.data) : rf.data[i].id # NoId
        loaded == IF loadable THEN [i \in 1..Len(rf.data) |-> FromDict(rf.data[i])]
                  ELSE <<>>
        recs == UpdateExistingDatesToIso(loaded)
        rf2 == IF recs # loaded THEN SaveRecords(recs) ELSE rf
    IN [records |-> recs, recFile |-> rf2, ctrFile |-> cf, idc |-> LoadCounter(cf)]

\* RecordKeeper.__init__ in a fresh process (the class counter is None):
\* load_records, then _load_counter
Construct(rf, cf) ==
    LET loadable == /\ rf.exists
                    /\ ~rf.corrupt
                    /\ \A i \in 1..Len(rf.data) : rf.data[i].id # NoId
        loaded == IF loadable THEN [i \in 1..Len(rf.data) |-> FromDict(rf.data[i])]
                  ELSE <<>>
        recs == UpdateExistingDatesToIso(loaded)
        rf2 == IF recs # loaded THEN SaveRecords(recs) ELSE rf
        \* _initialize_counter_from_records with _id_counter None
        cf2 == IF recs # <<>> THEN SaveCounter(MaxCounterOf(recs)) ELSE cf
    IN [records |-> recs, recFile |-> rf2, ctrFile |-> cf2, idc |-> LoadCounter(cf2)]

(***************************************************************************)
(* Store operations on the collection, as the handlers compute them.       *)
(***************************************************************************)
Max(a, b) == IF a > b THEN a ELSE b

\* a lookup that falls back on the first record
FirstIndex_Fallback(recs, record_id) ==
    IF \E i \in 1..Len(recs) : recs[i].id = record_id
    THEN CHOOSE i \in 1..Len(recs) :
            /\ recs[i].id = record_id
            /\ \A j \in 1..(i - 1) : recs[j].id # record_id
    ELSE IF recs # <<>> THEN 1 ELSE 0

\* the position of the first record with this id, 0 when there is none
FirstIndex(recs, record_id) ==
    IF \E i \in 1..Len(recs) : recs[i].id = record_id
    THEN CHOOSE i \in 1..Len(recs) :
            /\ recs[i].id = record_id
            /\ \A j \in 1..(i - 1) : recs[j].id # record_id
    ELSE 0

\* a removal that drops the last record, whichever was asked for
RemoveAt_Last(recs, i) == SubSeq(recs, 1, Len(recs) - 1)

\* del self.records[i]
RemoveAt(recs, i) == SubSeq(recs, 1, i - 1) \o SubSeq(recs, i + 1, Len(recs))

\* a delete that resets the counter whatever is left
CounterAfterDelete_AlwaysReset(recs, ctr) == 0

\* a delete that never resets the counter
CounterAfterDelete_NeverReset(recs, ctr) == ctr

\* delete_record: the counter once record i is removed
CounterAfterDelete(recs, ctr) == IF Len(recs) = 0 THEN 0 ELSE ctr

\* edit_record: the keyword arguments present in kw overwrite the fields
NoChange == [fmt |-> "absent", y |-> 0, m |-> 0, d |-> 0, ht |-> FALSE, t |-> NoTime]

\* an edit that blanks the sender when the call passes none
EditFields_BlanksSender(rec, kw) ==
    [id          |-> rec.id,
     date        |-> IF kw.date # NoChange THEN kw.date ELSE rec.date,
     sender      |-> IF kw.sender # Absent THEN kw.sender ELSE "",
     subject     |-> IF kw.subject # Absent THEN kw.subject ELSE rec.subject,
     destination |-> IF kw.destination # Absent THEN kw.destination ELSE rec.destination,
     status      |-> IF kw.status # Absent THEN kw.status ELSE rec.status]

EditFields(rec, kw) ==
    [id          |-> rec.id,
     date        |-> IF kw.date # NoChange THEN kw.date ELSE rec.date,
     sender      |-> IF kw.sender # Absent THEN kw.sender ELSE rec.sender,
     subject     |-> IF kw.subject # Absent THEN kw.subject ELSE rec.subject,
     destination |-> IF kw.destination # Absent THEN kw.destination ELSE rec.destination,
     status      |-> IF kw.status # Absent THEN kw.status ELSE rec.status]

\* update_existing_ids_to_new_format: the id of one record after the pass
\* a migration that numbers the ids it rewrites from 001
MigratedId_Renumbered(id) ==
    IF id.label = OldLabel /\ Len(IdParts(id)) >= 2
    THEN MkId(NewLabel, 1)
    ELSE id

MigratedId(id) ==
    IF id.label = OldLabel /\ Len(IdParts(id)) >= 2
    THEN [label |-> NewLabel, digits |-> IdParts(id)[Len(IdParts(id))]]
    ELSE id

\* updated_count of update_existing_ids_to_new_format
UpdatedCount(recs) ==
    Cardinality({i \in 1..Len(recs) : MigratedId(recs[i].id) # recs[i].id})

MigrateIds(recs) == [i \in 1..Len(recs) |-> [recs[i] EXCEPT !.id = MigratedId(recs[i].id)]]

(***************************************************************************)
(* Tabular import: a frame is the set of its normalised column names and   *)
(* its rows; a cell is text, or Nan for an empty cell.                     *)
(***************************************************************************)
Nan == "<nan>"
DateNan == [fmt |-> "nan", y |-> 0, m |-> 0, d |-> 0, ht |-> FALSE, t |-> NoTime]

\* a cell whose value raises when the loop body reads or converts it
Unreadable == "<unreadable>"
DateUnreadable == [fmt |-> "unreadable", y |-> 0, m |-> 0, d |-> 0, ht |-> FALSE, t |-> NoTime]

\* str(cell).strip()
Strip(text) == IF text = " " THEN "" ELSE text

\* str(row[col]).strip() if col and pd.notna(row[col]) else ""
CellText(cols, col, cell) == IF col \in cols /\ cell # Nan THEN Strip(cell) ELSE ""

DestinationCol(cols) ==
    IF "destination" \in cols THEN "destination"
    ELSE IF "to" \in cols THEN "to" ELSE "none"

\* a column check that accepts every frame
MissingColumns_None(cols) == {}

MissingColumns(cols) == {"sender", "subject"} \ cols

\* a date extraction that falls back on the current timestamp
RowDate_AutoDate(cols, cell) ==
    IF "date" \in cols /\ cell # DateNan /\ cell.fmt # "blank"
    THEN ParseAndFormatDate(cell) ELSE Now

\* the date of an imported row: None unless the cell parses to a date
RowDate(cols, cell) ==
    IF "date" \in cols /\ cell # DateNan /\ cell.fmt # "blank"
    THEN ParseAndFormatDate(cell) ELSE DateNone

\* a loop body that counts a row without sender or subject as an error
ImportRow_SkipIsError(cols, row, acc) ==
    LET sender == CellText(cols, "sender", row.sender)
        subject == CellText(cols, "subject", row.subject)
        made == DocumentRecordInit(sender, subject,
                                   CellText(cols, "destination", row.destination),
                                   RowDate(cols, row.date), NoId, FALSE, Pending, acc.ctr)
    IN IF sender = "" \/ subject = ""
       THEN [acc EXCEPT !.errors = acc.errors + 1]
       ELSE [records  |-> Append(acc.records, made.rec),
             ctr      |-> made.ctr,
             imported |-> acc.imported + 1,
             errors   |-> acc.errors]

\* a loop body that lets the exception of a row end the import: the rows
\* after it are not read
ImportRow_RaiseEndsLoop(cols, row, acc) ==
    LET sender == CellText(cols, "sender", row.sender)
        subject == CellText(cols, "subject", row.subject)
        made == DocumentRecordInit(sender, subject,
                                   CellText(cols, "destination", row.destination),
                                   RowDate(cols, row.date), NoId, FALSE, Pending, acc.ctr)
    IN IF acc.errors > 0 THEN acc
       ELSE IF row.sender = Unreadable \/ row.date = DateUnreadable
       THEN [acc EXCEPT !.errors = acc.errors + 1]
       ELSE IF sender = "" \/ subject = "" THEN acc
       ELSE [records  |-> Append(acc.records, made.rec),
             ctr      |-> made.ctr,
             imported |-> acc.imported + 1,
             errors   |-> acc.errors]

\* the body of the row loop: acc is [records, ctr, imported, errors].  The
\* three text cells are read first, then the row is skipped if sender or
\* subject is empty, then the date cell is read; an exception raised on the
\* way is caught, counted, and the loop goes on with the next row.
ImportRow(cols, row, acc) ==
    LET sender == CellText(cols, "sender", row.sender)
        subject == CellText(cols, "subject", row.subject)
        destcol == DestinationCol(cols)
        destination == IF destcol = "destination"
                       THEN CellText(cols, "destination", row.destination)
                       ELSE IF destcol = "to" THEN CellText(cols, "to", row.to)
                       ELSE ""
        made == DocumentRecordInit(sender, subject, destination,
                                   RowDate(cols, row.date), NoId, FALSE, Pending, acc.ctr)
        failed == [acc EXCEPT !.errors = acc.errors + 1]
    IN IF \/ "sender" \in cols /\ row.sender = Unreadable
          \/ "subject" \in cols /\ row.subject = Unreadable
          \/ destcol = "destination" /\ row.destination = Unreadable
          \/ destcol = "to" /\ row.to = Unreadable
       THEN failed
       ELSE IF sender = "" \/ subject = "" THEN acc
       ELSE IF "date" \in cols /\ row.date = DateUnreadable THEN failed
       ELSE [records  |-> Append(acc.records, made.rec),
             ctr      |-> made.ctr,
             imported |-> acc.imported + 1,
             errors   |-> acc.errors]

RECURSIVE ImportRows(_, _, _)
ImportRows(cols, rows, acc) ==
    IF rows = <<>> THEN acc
    ELSE ImportRows(cols, Tail(rows), ImportRow(cols, Head(rows), acc))

(***************************************************************************)
(* Backup restore: an archive is the set of its top-level keys and the     *)
(* entries of its records block; a key an entry lacks is Absent.           *)
(***************************************************************************)
\* record_data.get(key, default)
GetOr(value, default) == IF value = Absent THEN default ELSE value

\* a loop body that restores every entry, whatever its fields
RestoreEntry_NoSkip(entry, acc) ==
    LET made == DocumentRecordInit(GetOr(entry.sender, ""), GetOr(entry.subject, ""),
                                   GetOr(entry.destination, ""), entry.date,
                                   NoId, FALSE, GetOr(entry.status, Pending), acc.ctr)
    IN [records  |-> Append(acc.records, made.rec),
        ctr      |-> made.ctr,
        imported |-> acc.imported + 1,
        errors   |-> acc.errors]

RestoreEntry(entry, acc) ==
    LET sender == GetOr(entry.sender, "")
        subject == GetOr(entry.subject, "")
        destination == GetOr(entry.destination, "")
        status == GetOr(entry.status, Pending)
        made == DocumentRecordInit(sender, subject, destination, entry.date,
                                   NoId, FALSE, status, acc.ctr)
    IN IF sender = "" \/ subject = "" THEN acc
       ELSE [records  |-> Append(acc.records, made.rec),
             ctr      |-> made.ctr,
             imported |-> acc.imported + 1,
             errors   |-> acc.errors]

RECURSIVE RestoreEntries(_, _)
RestoreEntries(entries, acc) ==
    IF entries = <<>> THEN acc
    ELSE RestoreEntries(Tail(entries), RestoreEntry(Head(entries), acc))

\* a replace that clears the collection and keeps the counter
BulkStart_KeepsCounter(recs, ctr, replace_existing) ==
    [records |-> IF replace_existing THEN <<>> ELSE recs,
     ctr |-> ctr, imported |-> 0, errors |-> 0]

\* both bulk loads: the collection and counter the loop starts from
BulkStart(recs, ctr, replace_existing) ==
    [records |-> IF replace_existing THEN <<>> ELSE recs,
     ctr |-> IF replace_existing THEN 0 ELSE ctr,
     imported |-> 0, errors |-> 0]

\* a bulk load that does not put the snapshot back
BulkKept_NoRestore(original_records, done, replace_existing) ==
    IF done.imported > 0 THEN done.records ELSE <<>>

\* both bulk loads: the collection kept when the loop is over
BulkKept(original_records, done, replace_existing) ==
    IF done.imported > 0 THEN done.records
    ELSE IF ~replace_existing THEN original_records
    ELSE done.records

(***************************************************************************)
(* Inputs.                                                                 *)
(***************************************************************************)
\* sequences over S of length at most n
SeqsUpTo(S, n) == UNION {[1..k -> S] : k \in 0..n}

\* "1/7/2025 10:00:00", the legacy notation of the timestamp Now
UsDate == [fmt |-> "us_slash", y |-> 2025, m |-> 1, d |-> 7, ht |-> TRUE, t |-> <<10, 0, 0>>]

\* the dicts a record file holds when the process starts
InitDicts ==
    {[id |-> MkId(NewLabel, n), date |-> Now, sender |-> "A", subject |-> "S",
      destination |-> "D", status |-> Absent] : n \in 1..MaxInitCounter}
    \cup
    {[id |-> MkId(OldLabel, n), date |-> UsDate, sender |-> "A", subject |-> "S",
      destination |-> "D", status |-> Done] : n \in 1..MaxInitCounter}

\* record files whose ids have pairwise distinct numeric suffixes
InitRecFiles ==
    {NoRecFile} \cup
    {[exists |-> TRUE, data |-> ds, corrupt |-> FALSE] : ds \in
        {q \in SeqsUpTo(InitDicts, MaxInitRecords) :
            \A i, j \in 1..Len(q) : i # j => Suffix(q[i].id) # Suffix(q[j].id)}}

InitCtrFiles ==
    {NoCtrFile} \cup {[exists |-> TRUE, text |-> Digits(n)] : n \in 0..MaxInitCounter}

AddInputs ==
    {[sender |-> "A", subject |-> "S", destination |-> "D", date |-> DateNone]}

EditInputs ==
    {[sender |-> Absent, subject |-> Absent, destination |-> Absent,
      date |-> NoChange, status |-> Done],
     [sender |-> "A", subject |-> "S", destination |-> "D",
      date |-> Now, status |-> Completed]}

UnknownId == MkId(NewLabel, 0)

IdInputs == {records[i].id : i \in 1..Len(records)} \cup {UnknownId}

RowInputs ==
    {[sender |-> "A", subject |-> "S", destination |-> "D", to |-> Nan, date |-> UsDate],
     [sender |-> "A", subject |-> " ", destination |-> Nan, to |-> "D", date |-> DateNan]}

FrameInputs ==
    {[cols |-> {"sender", "subject", "destination", "date"}, rows |-> rs] :
        rs \in SeqsUpTo(RowInputs, MaxRows)}

EntryInputs ==
    {[sender |-> "A", subject |-> "S", destination |-> "D", date |-> Now,
      status |-> Done],
     [sender |-> Absent, subject |-> "S", destination |-> Absent, date |-> NoDate,
      status |-> Absent]}

ArchiveInputs ==
    {[keys |-> {"backup_info", "records"}, entries |-> es] :
        es \in SeqsUpTo(EntryInputs, MaxRows)}

Ret(ok, id) ==
    [ok |-> ok, id |-> id, raised |-> FALSE, count |-> 0, errors |-> 0, msg |-> ""]

\* the call ended with an exception reaching the caller
Raised ==
    [ok |-> FALSE, id |-> NoId, raised |-> TRUE, count |-> 0, errors |-> 0, msg |-> ""]

\* the result of a call that reports how many records it handled and how
\* many errors it met
RetCount(ok, count, errors) ==
    [ok |-> ok, id |-> NoId, raised |-> FALSE, count |-> count, errors |-> errors,
     msg |-> ""]

\* the result of a bulk load that ends with False: the message it prints
RetFailed(msg) ==
    [ok |-> FALSE, id |-> NoId, raised |-> FALSE, count |-> 0, errors |-> 0, msg |-> msg]

Requests == {1, 2}

\* auth_manager.current_user when nobody is logged in
NoUser == "<none>"

\* the session of a request that has not logged in: no 'username' and no
\* 'role' key
NoSession == [username |-> Absent, role |-> Absent]

\* the browsers that may open the event stream
Clients == {"c1", "c2"}

(***************************************************************************)
(* Init: the store constructed by a fresh process over the files found.    *)
(***************************************************************************)
InitFrom(recFiles, ctrFiles) ==
    \E rf \in recFiles, cf \in ctrFiles :
        LET c == Construct(rf, cf)
        IN /\ records = c.records
           /\ idc = c.idc
           /\ recFile = c.recFile
           /\ ctrFile = c.ctrFile
           /\ lastOp = "load"
           /\ ret = Ret(TRUE, NoId)
           /\ hIssued = {}
           /\ hPrevAdd = 0
           /\ hBulk = FALSE
           /\ hLoadCtr = LoadCounter(cf)
           /\ pc = [r \in Requests |-> "idle"]
           /\ rd = [r \in Requests |-> 0]
           /\ rid = [r \in Requests |-> NoId]
           /\ records2 = <<>>
           /\ recFile2 = NoRecFile
           /\ current_user = NoUser
           /\ session = [r \in Requests |-> NoSession]
           /\ connected_clients = {}
           /\ update_queue = <<>>
           /\ delivered = [cl \in Clients |-> <<>>]

Init == InitFrom(InitRecFiles, InitCtrFiles)

(***************************************************************************)
(* Actions: one per store operation.                                       *)
(***************************************************************************)
\* add_record: the record is built and appended, the record file and then
\* the counter file are written; an error of save_records is caught inside
\* it, an error of _save_counter reaches the caller
AddOn(in, w) ==
    /\ idc < MaxCounter
    /\ Len(records) < MaxRecords
    /\ LET made == DocumentRecordInit(in.sender, in.subject, in.destination, in.date,
                                      NoId, TRUE, Pending, idc)
       IN /\ records' = Append(records, made.rec)
          /\ recFile' = WriteRecords(w, records', recFile)
          /\ idc' = made.ctr
          /\ ctrFile' = WriteCounter(w, idc', ctrFile)
          /\ lastOp' = "add"
          /\ ret' = IF w.ctr = "ok" THEN Ret(TRUE, made.rec.id) ELSE Raised
          /\ hIssued' = hIssued \cup {Suffix(made.rec.id)}
          /\ hPrevAdd' = Suffix(made.rec.id)
          /\ hBulk' = FALSE
          /\ hLoadCtr' = 0
          /\ UNCHANGED <<web, other, app>>

Add(in) == AddOn(in, NoFault)

\* delete_record
DeleteOn(record_id, w) ==
    LET i == FirstIndex(records, record_id)
    IN IF i = 0
       THEN /\ lastOp' = "delete"
            /\ ret' = Ret(FALSE, NoId)
            /\ hLoadCtr' = 0
            /\ UNCHANGED <<records, idc, recFile, ctrFile, hIssued, hPrevAdd, hBulk>>
            /\ UNCHANGED <<web, other, app>>
       ELSE /\ records' = RemoveAt(records, i)
            /\ recFile' = WriteRecords(w, records', recFile)
            /\ idc' = CounterAfterDelete(records', idc)
            /\ ctrFile' = IF Len(records') = 0 THEN WriteCounter(w, idc', ctrFile)
                          ELSE ctrFile
            /\ lastOp' = "delete"
            /\ ret' = IF Len(records') = 0 /\ w.ctr # "ok" THEN Raised
                      ELSE Ret(TRUE, NoId)
            /\ hIssued' = IF Len(records') = 0 THEN {} ELSE hIssued
            /\ hPrevAdd' = IF Len(records') = 0 THEN 0 ELSE hPrevAdd
            /\ hBulk' = IF Len(records') = 0 THEN FALSE ELSE hBulk
            /\ hLoadCtr' = 0
            /\ UNCHANGED <<web, other, app>>

Delete(record_id) == DeleteOn(record_id, NoFault)

\* edit_record, entered as operation op
EditAs(op, record_id, kw, w) ==
    LET i == FirstIndex(records, record_id)
    IN /\ lastOp' = op
       /\ hLoadCtr' = 0
       /\ UNCHANGED <<idc, ctrFile, hIssued, hPrevAdd, hBulk>>
       /\ UNCHANGED <<web, other, app>>
       /\ IF i = 0
          THEN /\ ret' = Ret(FALSE, NoId)
               /\ UNCHANGED <<records, recFile>>
          ELSE /\ records' = [records EXCEPT ![i] = EditFields(records[i], kw)]
               /\ recFile' = WriteRecords(w, records', recFile)
               /\ ret' = Ret(TRUE, NoId)

Edit(record_id, kw) == EditAs("edit", record_id, kw, NoFault)

\* the keyword arguments of an edit that passes only status
StatusOnly(status) ==
    [sender |-> Absent, subject |-> Absent, destination |-> Absent,
     date |-> NoChange, status |-> status]

\* mark_as_completed (mark_as_done calls it)
MarkAsCompleted(record_id) ==
    EditAs("mark_completed", record_id, StatusOnly(Completed), NoFault)

\* mark_as_pending
MarkAsPending(record_id) ==
    EditAs("mark_pending", record_id, StatusOnly(Pending), NoFault)

\* what a bulk load leaves: shared by import_from_excel and restore_from_backup.
\* In replace mode the collection is cleared and the counter file written
\* before the loop; an error of that write ends the call in its except clause.
BulkLoad(op, done, replace_existing, w) ==
    /\ done.ctr <= MaxCounter
    /\ Len(done.records) <= MaxRecords
    /\ lastOp' = op
    /\ hIssued' = {}
    /\ hPrevAdd' = IF replace_existing THEN 0 ELSE hPrevAdd
    /\ hBulk' = IF replace_existing THEN FALSE ELSE TRUE
    /\ hLoadCtr' = 0
    /\ UNCHANGED <<web, other, app>>
    /\ IF replace_existing /\ w.ctr # "ok"
       THEN /\ records' = <<>>
            /\ idc' = 0
            /\ ctrFile' = WriteCounter(w, 0, ctrFile)
            /\ recFile' = recFile
            /\ ret' = RetFailed("error")
       ELSE /\ records' = BulkKept(records, done, replace_existing)
            /\ idc' = done.ctr
            /\ recFile' = IF done.imported > 0 THEN WriteRecords(w, records', recFile)
                          ELSE recFile
            /\ ctrFile' = IF replace_existing THEN SaveCounter(0) ELSE ctrFile
            /\ ret' = IF done.imported > 0
                      THEN RetCount(TRUE, done.imported, done.errors)
                      ELSE RetFailed("no valid records")

\* a bulk load refused before it touches the store
BulkRefused(op, replace_existing) ==
    /\ lastOp' = op
    /\ ret' = RetFailed("refused")
    /\ hIssued' = {}
    /\ hPrevAdd' = IF replace_existing THEN 0 ELSE hPrevAdd
    /\ hBulk' = IF replace_existing THEN FALSE ELSE TRUE
    /\ hLoadCtr' = 0
    /\ UNCHANGED <<records, idc, recFile, ctrFile>>
    /\ UNCHANGED <<web, other, app>>

\* import_from_excel
ImportFromExcelOn(frame, replace_existing, w) ==
    LET op == IF replace_existing THEN "import_replace" ELSE "import"
    IN IF MissingColumns(frame.cols) # {}
       THEN BulkRefused(op, replace_existing)
       ELSE BulkLoad(op,
                     ImportRows(frame.cols, frame.rows,
                                BulkStart(records, idc, replace_existing)),
                     replace_existing, w)

ImportFromExcel(frame, replace_existing) ==
    ImportFromExcelOn(frame, replace_existing, NoFault)

\* restore_from_backup
RestoreFromBackupOn(archive, replace_existing, w) ==
    LET op == IF replace_existing THEN "restore_replace" ELSE "restore"
    IN IF {"backup_info", "records"} \ archive.keys # {}
       THEN BulkRefused(op, replace_existing)
       ELSE BulkLoad(op,
                     RestoreEntries(archive.entries,
                                    BulkStart(records, idc, replace_existing)),
                     replace_existing, w)

RestoreFromBackup(archive, replace_existing) ==
    RestoreFromBackupOn(archive, replace_existing, NoFault)

\* reset_all_data: an error of _save_counter is caught and False returned
ResetAllDataOn(w) ==
    /\ records' = <<>>
    /\ recFile' = WriteRecords(w, records', recFile)
    /\ idc' = 0
    /\ ctrFile' = WriteCounter(w, idc', ctrFile)
    /\ lastOp' = "reset"
    /\ ret' = Ret(w.ctr = "ok", NoId)
    /\ hIssued' = {}
    /\ hPrevAdd' = 0
    /\ hBulk' = FALSE
    /\ hLoadCtr' = 0
    /\ UNCHANGED <<web, other, app>>

ResetAllData == ResetAllDataOn(NoFault)

\* update_existing_ids_to_new_format
UpdateExistingIds ==
    /\ records' = MigrateIds(records)
    /\ recFile' = IF records' # records THEN SaveRecords(records') ELSE recFile
    /\ lastOp' = "migrate"
    /\ ret' = RetCount(TRUE, UpdatedCount(records), 0)
    /\ hLoadCtr' = 0
    /\ UNCHANGED <<idc, ctrFile, hIssued, hPrevAdd, hBulk>>
    /\ UNCHANGED <<web, other, app>>

\* the process stops and a new one constructs the store from the files
Restart ==
    LET c == Construct(recFile, ctrFile)
    IN /\ records' = c.records
       /\ idc' = c.idc
       /\ recFile' = c.recFile
       /\ ctrFile' = c.ctrFile
       /\ lastOp' = "load"
       /\ ret' = Ret(TRUE, NoId)
       /\ hPrevAdd' = 0
       /\ hBulk' = FALSE
       /\ hLoadCtr' = LoadCounter(ctrFile)
       /\ UNCHANGED hIssued
       /\ UNCHANGED <<web, other, app>>

Next ==
    \/ \E in \in AddInputs : Add(in)
    \/ \E id \in IdInputs : Delete(id)
    \/ \E id \in IdInputs, kw \in EditInputs : Edit(id, kw)
    \/ \E f \in FrameInputs, rp \in BOOLEAN : ImportFromExcel(f, rp)
    \/ \E a \in ArchiveInputs, rp \in BOOLEAN : RestoreFromBackup(a, rp)
    \/ ResetAllData
    \/ UpdateExistingIds
    \/ Restart

Spec == Init /\ [][Next]_vars

(***************************************************************************)
(* Concurrent execution: the web layer serves each request on its own      *)
(* thread against the one shared store, with no lock.  A request is one    *)
(* /add or one /delete/<id>; each step below is one read or write of the   *)
(* shared counter, collection or files.                                    *)
(***************************************************************************)
Goto(r, label) == pc' = [pc EXCEPT ![r] = label]

\* app.add_record is entered
WebAddStart(r) ==
    /\ pc[r] = "idle"
    /\ Goto(r, "gen_read")
    /\ UNCHANGED <<store, lastOp, ret, hist, other, app, rd, rid>>

\* _generate_id: DocumentRecord._id_counter is read ...
GenerateIdRead(r) ==
    /\ pc[r] = "gen_read"
    /\ rd' = [rd EXCEPT ![r] = idc]
    /\ Goto(r, "gen_write")
    /\ UNCHANGED <<store, lastOp, ret, hist, other, app, rid>>

\* ... and written back incremented
GenerateIdWrite(r) ==
    /\ pc[r] = "gen_write"
    /\ idc' = rd[r] + 1
    /\ Goto(r, "gen_format")
    /\ UNCHANGED <<records, recFile, ctrFile, lastOp, ret, hist, other, app, rd, rid>>

\* _generate_id: the counter is read again to format the id
GenerateIdFormat(r) ==
    /\ pc[r] = "gen_format"
    /\ rid' = [rid EXCEPT ![r] = MkId(NewLabel, idc)]
    /\ Goto(r, "add_append")
    /\ UNCHANGED <<store, lastOp, ret, hist, other, app, rd>>

\* add_record: self.records.append(record)
AddAppend(r) ==
    /\ pc[r] = "add_append"
    /\ records' = Append(records,
                         [id |-> rid[r], date |-> Now, sender |-> "A", subject |-> "S",
                          destination |-> "D", status |-> NormalStatus(Pending)])
    /\ Goto(r, "add_save")
    /\ UNCHANGED <<idc, recFile, ctrFile, lastOp, ret, hist, other, app, rd, rid>>

\* add_record: self.save_records()
AddSaveRecords(r) ==
    /\ pc[r] = "add_save"
    /\ recFile' = SaveRecords(records)
    /\ Goto(r, "add_save_counter")
    /\ UNCHANGED <<records, idc, ctrFile, lastOp, ret, hist, other, app, rd, rid>>

\* add_record: self._save_counter()
AddSaveCounter(r) ==
    /\ pc[r] = "add_save_counter"
    /\ ctrFile' = SaveCounter(idc)
    /\ Goto(r, "done")
    /\ UNCHANGED <<records, idc, recFile, lastOp, ret, hist, other, app, rd, rid>>

\* app.delete_record is entered with an id
WebDeleteStart(r, record_id) ==
    /\ pc[r] = "idle"
    /\ rid' = [rid EXCEPT ![r] = record_id]
    /\ Goto(r, "del_remove")
    /\ UNCHANGED <<store, lastOp, ret, hist, other, app, rd>>

\* delete_record: the loop finds the record and deletes it, or returns False
DeleteRemove(r) ==
    /\ pc[r] = "del_remove"
    /\ LET i == FirstIndex(records, rid[r])
       IN IF i = 0
          THEN Goto(r, "done") /\ UNCHANGED records
          ELSE Goto(r, "del_save") /\ records' = RemoveAt(records, i)
    /\ UNCHANGED <<idc, recFile, ctrFile, lastOp, ret, hist, other, app, rd, rid>>

\* delete_record: self.save_records()
DeleteSaveRecords(r) ==
    /\ pc[r] = "del_save"
    /\ recFile' = SaveRecords(records)
    /\ Goto(r, "del_check")
    /\ UNCHANGED <<records, idc, ctrFile, lastOp, ret, hist, other, app, rd, rid>>

\* delete_record: if len(self.records) == 0 the counter is set to 0
DeleteReset(r) ==
    /\ pc[r] = "del_check"
    /\ idc' = CounterAfterDelete(records, idc)
    /\ Goto(r, IF Len(records) = 0 THEN "del_save_counter" ELSE "done")
    /\ UNCHANGED <<records, recFile, ctrFile, lastOp, ret, hist, other, app, rd, rid>>

\* delete_record: self._save_counter() after the reset
DeleteSaveCounter(r) ==
    /\ pc[r] = "del_save_counter"
    /\ ctrFile' = SaveCounter(idc)
    /\ Goto(r, "done")
    /\ UNCHANGED <<records, idc, recFile, lastOp, ret, hist, other, app, rd, rid>>

NextConcurrent ==
    \/ \E r \in Requests : WebAddStart(r)
    \/ \E r \in Requests : GenerateIdRead(r)
    \/ \E r \in Requests : GenerateIdWrite(r)
    \/ \E r \in Requests : GenerateIdFormat(r)
    \/ \E r \in Requests : AddAppend(r)
    \/ \E r \in Requests : AddSaveRecords(r)
    \/ \E r \in Requests : AddSaveCounter(r)
    \/ \E r \in Requests : \E id \in IdInputs : WebDeleteStart(r, id)
    \/ \E r \in Requests : DeleteRemove(r)
    \/ \E r \in Requests : DeleteSaveRecords(r)
    \/ \E r \in Requests : DeleteReset(r)
    \/ \E r \in Requests : DeleteSaveCounter(r)

SpecConcurrent == Init /\ [][NextConcurrent]_vars

(***************************************************************************)
(* Calls with arbitrary arguments: empty field values, unknown ids, frames *)
(* and archives with invalid rows, with missing columns or blocks, and     *)
(* with id values of their own.                                            *)
(***************************************************************************)
\* an id a source row or archive entry carries
SourceId == MkId(OldLabel, 7)

AnyAddInputs ==
    {[sender |-> "A", subject |-> "S", destination |-> "D", date |-> DateNone],
     [sender |-> "", subject |-> "", destination |-> "D", date |-> DateNone]}

AnyEditInputs ==
    {[sender |-> "", subject |-> "", destination |-> "D", date |-> Now,
      status |-> Pending]}

\* two rows with every cell filled, one whose subject is blank, one without
\* sender
RowFilled ==
    [id |-> SourceId, sender |-> "A", subject |-> "S", destination |-> "D",
     to |-> Nan, date |-> UsDate]
RowSecond ==
    [id |-> SourceId, sender |-> "B", subject |-> "T", destination |-> "D",
     to |-> Nan, date |-> UsDate]
RowBlankSubject ==
    [id |-> SourceId, sender |-> "A", subject |-> " ", destination |-> "D",
     to |-> Nan, date |-> UsDate]
RowNoSender ==
    [id |-> SourceId, sender |-> Nan, subject |-> "S", destination |-> Nan,
     to |-> Nan, date |-> DateNan]

\* frames with rows that raise, one at the sender cell and one at the date
\* cell, before, between and after rows that do not
RaisingFrameInputs ==
    LET RowUnreadableSender == [RowFilled EXCEPT !.sender = Unreadable]
        RowUnreadableDate == [RowFilled EXCEPT !.date = DateUnreadable]
    IN {[cols |-> {"id", "sender", "subject", "destination", "date"}, rows |-> rs] :
            rs \in {<<RowUnreadableSender>>,
                    <<RowFilled, RowUnreadableSender, RowSecond>>,
                    <<RowUnreadableDate, RowBlankSubject, RowFilled>>,
                    <<RowSecond, RowUnreadableDate>>}}

AnyFrameInputs ==
    {[cols |-> {"id", "sender", "subject", "destination", "date"}, rows |-> rs] :
        rs \in {<<>>, <<RowFilled>>, <<RowBlankSubject>>,
                <<RowNoSender, RowBlankSubject>>,
                <<RowFilled, RowBlankSubject, RowSecond>>,
                <<RowNoSender, RowSecond, RowBlankSubject>>}}
    \cup
    {[cols |-> cs, rows |-> <<RowFilled>>] :
        cs \in {{"id", "sender", "to"}, {"id", "subject", "date"}}}

\* two entries with every key, one whose subject is empty, one without
\* sender
EntryFilled ==
    [id |-> SourceId, sender |-> "A", subject |-> "S", destination |-> "D",
     date |-> Now, status |-> Absent]
EntrySecond ==
    [id |-> SourceId, sender |-> "B", subject |-> "T", destination |-> "D",
     date |-> Now, status |-> Pending]
EntryEmptySubject ==
    [id |-> SourceId, sender |-> "A", subject |-> "", destination |-> "D",
     date |-> Now, status |-> Pending]
EntryNoSender ==
    [id |-> SourceId, sender |-> Absent, subject |-> "S", destination |-> Absent,
     date |-> NoDate, status |-> Absent]

AnyArchiveInputs ==
    {[keys |-> {"backup_info", "records"}, entries |-> es] :
        es \in {<<>>, <<EntryFilled>>, <<EntryEmptySubject>>,
                <<EntryNoSender, EntryEmptySubject>>,
                <<EntryFilled, EntryEmptySubject, EntrySecond>>,
                <<EntryNoSender, EntrySecond, EntryEmptySubject>>}}
    \cup
    {[keys |-> ks, entries |-> <<EntryFilled>>] :
        ks \in {{"records"}, {"backup_info"}}}

\* ids to call with, whether or not a record has them: any id to delete,
\* the ids 000 and 001 to edit or mark
AnyIdInputs == {MkId(NewLabel, n) : n \in 0..MaxCounter}

EditIdInputs == {MkId(NewLabel, 0), MkId(NewLabel, 1)}

NextValidation ==
    \/ \E in \in AnyAddInputs : Add(in)
    \/ \E id \in AnyIdInputs : Delete(id)
    \/ \E id \in EditIdInputs : MarkAsCompleted(id)
    \/ \E id \in EditIdInputs : MarkAsPending(id)
    \/ \E id \in EditIdInputs, kw \in AnyEditInputs : Edit(id, kw)
    \/ \E f \in AnyFrameInputs, rp \in BOOLEAN : ImportFromExcel(f, rp)
    \/ \E f \in RaisingFrameInputs, rp \in BOOLEAN : ImportFromExcel(f, rp)
    \/ \E a \in AnyArchiveInputs, rp \in BOOLEAN : RestoreFromBackup(a, rp)

\* the store of a first run: no record file and no counter file yet
InitFirstRun == InitFrom({NoRecFile}, {NoCtrFile})

SpecValidation == InitFirstRun /\ [][NextValidation]_vars

(***************************************************************************)
(* Calls made while the disk refuses or interrupts writes.                 *)
(***************************************************************************)
NextFaulty ==
    \/ \E in \in AddInputs, w \in Faults : AddOn(in, w)
    \/ \E id \in IdInputs, w \in Faults : DeleteOn(id, w)
    \/ \E id \in IdInputs, kw \in EditInputs, w \in Faults : EditAs("edit", id, kw, w)
    \/ \E f \in FrameInputs, rp \in BOOLEAN, w \in Faults : ImportFromExcelOn(f, rp, w)
    \/ \E a \in ArchiveInputs, rp \in BOOLEAN, w \in Faults :
            RestoreFromBackupOn(a, rp, w)
    \/ \E w \in Faults : ResetAllDataOn(w)

SpecFaulty == InitFirstRun /\ [][NextFaulty]_vars

(***************************************************************************)
(* Loads: the store is constructed over a record file that may be corrupt  *)
(* and over dates written in the notations of earlier versions.            *)
(***************************************************************************)
Date(fmt, y, m, d, ht, t) == [fmt |-> fmt, y |-> y, m |-> m, d |-> d, ht |-> ht, t |-> t]

\* "1.7.2025", "13/7/2025", "1/7/2025 00:00:00", "2/30/2025",
\* "January 7, 2025", "January 7, 2025 at 2:30 PM", "Foo 7, 2025", "1-7-2025"
LegacyDateInputs ==
    {UsDate,
     Date("us_dot", 2025, 1, 7, FALSE, NoTime),
     Date("us_slash", 2025, 13, 7, FALSE, NoTime),
     Date("us_slash", 2025, 1, 7, TRUE, NoTime),
     Date("us_slash", 2025, 2, 30, FALSE, NoTime),
     Date("readable", 2025, 1, 7, FALSE, NoTime),
     Date("readable", 2025, 1, 7, TRUE, <<14, 30, 0>>),
     Date("readable", 2025, 0, 7, FALSE, NoTime),
     Date("us_dash", 2025, 1, 7, FALSE, NoTime)}

\* an edit that passes only a date
DateOnly(date) ==
    [sender |-> Absent, subject |-> Absent, destination |-> Absent,
     date |-> date, status |-> Absent]

InitLoad == InitFrom({NoRecFile, CorruptRecFile}, InitCtrFiles \cup {EmptyCtrFile})

NextLoad ==
    \/ \E in \in AddInputs : Add(in)
    \/ \E id \in EditIdInputs, date \in LegacyDateInputs : Edit(id, DateOnly(date))
    \/ \E id \in IdInputs : Delete(id)
    \/ Restart

SpecLoad == InitLoad /\ [][NextLoad]_vars

(***************************************************************************)
(* Status values: records are built by add, by import, by restore and by   *)
(* a load of what edits have written to the record file.                   *)
(***************************************************************************)
\* the status values a record file or an archive may carry: the two the
\* constructor maps to Completed, one it does not know, and none
SourceStatusInputs == {Done, Completed, "Archived", Absent}

\* archives of one entry, one for each source status
StatusArchiveInputs ==
    {[keys |-> {"backup_info", "records"},
      entries |-> <<[sender |-> "A", subject |-> "S", destination |-> "D",
                     date |-> Now, status |-> st]>>] : st \in SourceStatusInputs}

NextStatus ==
    \/ \E in \in AddInputs : Add(in)
    \/ \E id \in EditIdInputs, st \in SourceStatusInputs \ {Absent} :
            Edit(id, StatusOnly(st))
    \/ \E f \in FrameInputs, rp \in BOOLEAN : ImportFromExcel(f, rp)
    \/ \E a \in StatusArchiveInputs, rp \in BOOLEAN : RestoreFromBackup(a, rp)
    \/ Restart

SpecStatus == InitFirstRun /\ [][NextStatus]_vars

(***************************************************************************)
(* Dates: imports of rows whose date cell is written in each notation,     *)
(* valid or not, and of rows without date.                                 *)
(***************************************************************************)
\* frames whose rows have no date: no date column, an empty date cell, a
\* date cell of blanks; the last frame has a dated row first
UndatedFrameInputs ==
    {[cols |-> {"id", "sender", "subject", "destination"}, rows |-> <<RowFilled>>]}
    \cup
    {[cols |-> {"id", "sender", "subject", "destination", "date"}, rows |-> rs] :
        rs \in {<<[RowFilled EXCEPT !.date = DateNan]>>,
                <<[RowSecond EXCEPT !.date = DateBlank]>>,
                <<RowFilled, [RowSecond EXCEPT !.date = DateNan]>>}}

\* date cells in four notations: January 7, February 30, a month 13 on
\* the 7th and on the 40th, each without time, at midnight, at 10:00:00
\* and at 25:00:00; "01/07/2025", "2025-01-07" and "13/40/2025" are among
\* them
NormalizeInputs ==
    {Date(fmt, 2025, md[1], md[2], tm[1], tm[2]) :
        fmt \in {"us_slash", "us_dot", "us_dash", "iso"},
        md \in {<<1, 7>>, <<2, 30>>, <<13, 7>>, <<13, 40>>},
        tm \in {<<FALSE, NoTime>>, <<TRUE, NoTime>>,
                <<TRUE, <<10, 0, 0>>>>, <<TRUE, <<25, 0, 0>>>>}}

\* a frame of one row with the given date cell
DateFrame(date) ==
    [cols |-> {"sender", "subject", "destination", "date"},
     rows |-> <<[RowFilled EXCEPT !.date = date]>>]

NextDates ==
    \/ \E in \in AddInputs : Add(in)
    \/ \E f \in UndatedFrameInputs, rp \in BOOLEAN : ImportFromExcel(f, rp)
    \/ \E date \in NormalizeInputs : ImportFromExcel(DateFrame(date), TRUE)

SpecDates == InitFirstRun /\ [][NextDates]_vars

(***************************************************************************)
(* Queries.  A text is the sequence of the ASCII codes of a string.        *)
(***************************************************************************)
\* str.lower() on ASCII text
Lower(text) ==
    [i \in 1..Len(text) |-> IF text[i] \in 65..90 THEN text[i] + 32 ELSE text[i]]

\* sub in text
Contains(text, sub) ==
    \E k \in 0..(Len(text) - Len(sub)) : SubSeq(text, k + 1, k + Len(sub)) = sub

\* the decimal digits ds as text
DigitText(ds) == [i \in 1..Len(ds) |-> 48 + ds[i]]

\* record.id: "MAYOR'S OFFICE - 001", "LGU_TNGLN-MAYOR'S OFFICE - 001"
IdText(id) ==
    LET office == <<77, 65, 89, 79, 82, 39, 83, 32, 79, 70, 70, 73, 67, 69>>
        lgu == <<76, 71, 85, 95, 84, 78, 71, 76, 78, 45>>
    IN (IF id.label = OldLabel THEN lgu \o office ELSE office)
       \o <<32, 45, 32>> \o DigitText(id.digits)

\* record.date: "2025-01-07", "2025-01-07 10:00:00", "1/7/2025", "1.7.2025",
\* "1-7-2025", with the time behind a space when one is written, and
\* "No Date"; dates in words are not written out
DateText(date) ==
    LET D2(n) == DigitText(ZeroPad(Digits(n), 2))
        time == IF date.ht
                THEN <<32>> \o D2(date.t[1]) \o <<58>> \o D2(date.t[2])
                          \o <<58>> \o D2(date.t[3])
                ELSE <<>>
        sep == IF date.fmt = "us_slash" THEN <<47>>
               ELSE IF date.fmt = "us_dot" THEN <<46>> ELSE <<45>>
    IN CASE date.fmt = "nodate" -> <<78, 111, 32, 68, 97, 116, 101>>
         [] date.fmt = "iso" ->
                DigitText(ZeroPad(Digits(date.y), 4)) \o <<45>> \o D2(date.m)
                    \o <<45>> \o D2(date.d) \o time
         [] date.fmt \in {"us_slash", "us_dot", "us_dash"} ->
                DigitText(Digits(date.m)) \o sep \o DigitText(Digits(date.d))
                    \o sep \o DigitText(ZeroPad(Digits(date.y), 4)) \o time

\* the sender, subject and destination values of the model as text
FieldText(value) ==
    CASE value = "" -> <<>>
      [] value = "A" -> <<65>>
      [] value = "B" -> <<66>>
      [] value = "D" -> <<68>>
      [] value = "S" -> <<83>>
      [] value = "T" -> <<84>>
      [] value = "Alice" -> <<65, 108, 105, 99, 101>>
      [] value = "Budget" -> <<66, 117, 100, 103, 101, 116>>
      [] value = "Desk" -> <<68, 101, 115, 107>>
      [] value = "Memo" -> <<77, 101, 109, 111>>

\* a search that looks at the sender only
SearchRecords_SenderOnly(recs, query) ==
    LET Match(r) == Contains(Lower(FieldText(r.sender)), Lower(query))
    IN IF query = <<>> THEN recs ELSE SelectSeq(recs, Match)

\* search_records
SearchRecords(recs, query) ==
    LET q == Lower(query)
        Match(r) ==
            \/ Contains(Lower(IdText(r.id)), q)
            \/ Contains(Lower(DateText(r.date)), q)
            \/ Contains(Lower(FieldText(r.sender)), q)
            \/ Contains(Lower(FieldText(r.subject)), q)
            \/ Contains(Lower(FieldText(r.destination)), q)
    IN IF query = <<>> THEN recs ELSE SelectSeq(recs, Match)

\* text.split(' ')[0]
FirstWord(text) ==
    LET spaces == {i \in 1..Len(text) : text[i] = 32}
    IN IF spaces = {} THEN text
       ELSE SubSeq(text, 1, (CHOOSE i \in spaces : \A j \in spaces : i <= j) - 1)

\* a <= b on str: code by code, a prefix being smaller
RECURSIVE StrLeq(_, _)
StrLeq(a, b) ==
    IF a = <<>> THEN TRUE
    ELSE IF b = <<>> THEN FALSE
    ELSE IF Head(a) # Head(b) THEN Head(a) < Head(b)
    ELSE StrLeq(Tail(a), Tail(b))

\* a date range that compares the whole date string
GetRecordsByDateRange_WholeDate(recs, start_date, end_date) ==
    LET InRange(r) ==
            /\ StrLeq(start_date, DateText(r.date))
            /\ StrLeq(DateText(r.date), end_date)
    IN SelectSeq(recs, InRange)

\* get_records_by_date_range
GetRecordsByDateRange(recs, start_date, end_date) ==
    LET InRange(r) ==
            LET record_date == FirstWord(DateText(r.date))
            IN StrLeq(start_date, record_date) /\ StrLeq(record_date, end_date)
    IN SelectSeq(recs, InRange)

\* statistics that count every sender and destination value, empty or not
GetStatistics_CountsEmpty(recs) ==
    LET idx == 1..Len(recs)
        senders == {recs[i].sender : i \in idx}
        destinations == {recs[i].destination : i \in idx}
    IN [total_records       |-> Len(recs),
        unique_senders      |-> Cardinality(senders),
        unique_destinations |-> Cardinality(destinations),
        pending_count       |-> Cardinality({i \in idx : recs[i].status = Pending}),
        completed_count     |-> Cardinality({i \in idx : recs[i].status = Completed}),
        senders             |-> senders,
        destinations        |-> destinations]

\* get_statistics; the two lists are in no fixed order and are sets here
GetStatistics(recs) ==
    LET idx == 1..Len(recs)
        senders == {recs[i].sender : i \in {j \in idx : recs[j].sender # ""}}
        destinations ==
            {recs[i].destination : i \in {j \in idx : recs[j].destination # ""}}
    IN IF recs = <<>>
       THEN [total_records |-> 0, unique_senders |-> 0, unique_destinations |-> 0,
             pending_count |-> 0, completed_count |-> 0,
             senders |-> {}, destinations |-> {}]
       ELSE [total_records       |-> Len(recs),
             unique_senders      |-> Cardinality(senders),
             unique_destinations |-> Cardinality(destinations),
             pending_count       |-> Cardinality({i \in idx : recs[i].status = Pending}),
             completed_count     |-> Cardinality({i \in idx : recs[i].status = Completed}),
             senders             |-> senders,
             destinations        |-> destinations]

\* the result of a query: the arguments it was called with and the value
\* it returned
RetValue(args, value) ==
    [ok |-> TRUE, id |-> NoId, raised |-> FALSE, count |-> 0, errors |-> 0, msg |-> "",
     args |-> args, value |-> value]

\* a query: it returns a value and assigns nothing
Query(op, args, value) ==
    /\ lastOp' = op
    /\ ret' = RetValue(args, value)
    /\ hLoadCtr' = 0
    /\ UNCHANGED <<records, idc, recFile, ctrFile, hIssued, hPrevAdd, hBulk>>
    /\ UNCHANGED <<web, other, app>>

Search(query) == Query("search", <<query>>, SearchRecords(records, query))

GetByDateRange(start_date, end_date) ==
    Query("date_range", <<start_date, end_date>>,
          GetRecordsByDateRange(records, start_date, end_date))

Statistics == Query("statistics", <<>>, GetStatistics(records))

QueryAddInputs ==
    {[sender |-> "Alice", subject |-> "Budget", destination |-> "Desk", date |-> DateNone],
     [sender |-> "", subject |-> "Memo", destination |-> "", date |-> DateNone]}

\* "2025-01-08" and "No Date"
QueryDateInputs == {Date("iso", 2025, 1, 8, FALSE, NoTime), NoDate}

\* "", "alice", "BUDGET", "alic", "xyz", "Office - 002", "01-07 1", "no d"
SearchInputs ==
    {<<>>,
     <<97, 108, 105, 99, 101>>,
     <<66, 85, 68, 71, 69, 84>>,
     <<97, 108, 105, 99>>,
     <<120, 121, 122>>,
     <<79, 102, 102, 105, 99, 101, 32, 45, 32, 48, 48, 50>>,
     <<48, 49, 45, 48, 55, 32, 49>>,
     <<110, 111, 32, 100>>}

\* the ranges "2025-01-07" to "2025-01-07", "2025-01-01" to "2025-01-07",
\* "2025-01-08" to "2025-01-31", "2025-01-01" to "2025-01-31", and
\* "2025-01-31" to "2025-01-01"
RangeInputs ==
    LET Jan(d) == <<50, 48, 50, 53, 45, 48, 49, 45>> \o d
    IN {<<Jan(<<48, 55>>), Jan(<<48, 55>>)>>,
        <<Jan(<<48, 49>>), Jan(<<48, 55>>)>>,
        <<Jan(<<48, 56>>), Jan(<<51, 49>>)>>,
        <<Jan(<<48, 49>>), Jan(<<51, 49>>)>>,
        <<Jan(<<51, 49>>), Jan(<<48, 49>>)>>}

NextQuery ==
    \/ \E in \in QueryAddInputs : Add(in)
    \/ \E id \in IdInputs : Delete(id)
    \/ MarkAsCompleted(MkId(NewLabel, 1))
    \/ \E date \in QueryDateInputs : Edit(MkId(NewLabel, 1), DateOnly(date))
    \/ \E query \in SearchInputs : Search(query)
    \/ \E range \in RangeInputs : GetByDateRange(range[1], range[2])
    \/ Statistics

SpecQuery == InitFirstRun /\ [][NextQuery]_vars

(***************************************************************************)
(* Two RecordKeeper instances in one process.  The counter is the class    *)
(* attribute DocumentRecord._id_counter and the counter file is the class  *)
(* constant COUNTER_FILE: both instances read and write the same ones.     *)
(***************************************************************************)
\* the counter instance k (1 or 2) issues ids from
CounterUsedBy(k) == idc

\* RecordKeeper("other.json") while the first instance is alive: the class
\* counter is not None, so _initialize_counter_from_records only raises
\* it, and _load_counter then sets it from the counter file
ConstructOther ==
    LET loadable == recFile2.exists /\ ~recFile2.corrupt
        loaded == IF loadable
                  THEN [i \in 1..Len(recFile2.data) |-> FromDict(recFile2.data[i])]
                  ELSE <<>>
        recs == UpdateExistingDatesToIso(loaded)
        cf2 == IF recs # <<>>
               THEN SaveCounter(Max(idc, MaxCounterOf(recs)))
               ELSE ctrFile
    IN /\ records2' = recs
       /\ recFile2' = IF recs # loaded THEN SaveRecords(recs) ELSE recFile2
       /\ ctrFile' = cf2
       /\ idc' = LoadCounter(cf2)
       /\ lastOp' = "construct2"
       /\ ret' = Ret(TRUE, NoId)
       /\ UNCHANGED <<records, recFile, hist, web, app>>

\* add_record on the second instance
AddOther(in) ==
    /\ idc < MaxCounter
    /\ Len(records2) < MaxRecords
    /\ LET made == DocumentRecordInit(in.sender, in.subject, in.destination, in.date,
                                      NoId, TRUE, Pending, idc)
       IN /\ records2' = Append(records2, made.rec)
          /\ recFile2' = SaveRecords(records2')
          /\ idc' = made.ctr
          /\ ctrFile' = SaveCounter(idc')
          /\ lastOp' = "add2"
          /\ ret' = Ret(TRUE, made.rec.id)
          /\ UNCHANGED <<records, recFile, hist, web, app>>

NextInstances ==
    \/ \E in \in AddInputs : Add(in)
    \/ \E id \in IdInputs : Delete(id)
    \/ \E f \in FrameInputs : ImportFromExcel(f, FALSE)
    \/ ResetAllData
    \/ ConstructOther
    \/ \E in \in AddInputs : AddOther(in)

SpecInstances == InitFirstRun /\ [][NextInstances]_vars

(***************************************************************************)
(* Web sessions (app.py).  Each request of Requests comes from a browser   *)
(* of its own and carries that browser's session; auth_manager is one      *)
(* object for all of them.  No event stream client is connected here, so   *)
(* broadcast_update queues nothing.                                        *)
(***************************************************************************)
\* the default users of AuthManager: the user names, and the role of each
Users == {"admin", "user"}

RoleOf(username) == IF username = "admin" THEN "admin" ELSE "user"

\* the decorators login_required and admin_required
LoginRequired(r) == session[r].username # Absent

AdminRequired(r) == session[r].username # Absent /\ session[r].role = "admin"

\* the request is redirected by a decorator or told "insufficient
\* permissions": nothing is called
Refused ==
    /\ lastOp' = "refused"
    /\ ret' = Ret(FALSE, NoId)
    /\ UNCHANGED <<store, hist, web, other, app>>

\* POST /login, first half: auth_manager.login(username, password) has
\* verified the password and assigned current_user, and session['username']
\* is set; with a wrong password nothing is assigned
LoginVerify(r, username, password_ok) ==
    /\ pc[r] = "idle"
    /\ IF password_ok
       THEN /\ current_user' = username
            /\ session' = [session EXCEPT ![r].username = username]
            /\ Goto(r, "login_role")
       ELSE UNCHANGED <<current_user, session, pc>>
    /\ lastOp' = "login"
    /\ ret' = Ret(password_ok, NoId)
    /\ UNCHANGED <<store, hist, rd, rid, other,
                   connected_clients, update_queue, delivered>>

\* POST /login, second half: session['role'] =
\* auth_manager.get_current_user().role; with current_user None the
\* attribute access raises and the role is not set
LoginRole(r) ==
    /\ pc[r] = "login_role"
    /\ session' = IF current_user = NoUser THEN session
                  ELSE [session EXCEPT ![r].role = RoleOf(current_user)]
    /\ Goto(r, "idle")
    /\ lastOp' = "login"
    /\ ret' = IF current_user = NoUser THEN Raised ELSE Ret(TRUE, NoId)
    /\ UNCHANGED <<store, hist, rd, rid, other,
                   current_user, connected_clients, update_queue, delivered>>

\* GET /logout: session.clear() and auth_manager.logout()
Logout(r) ==
    /\ pc[r] = "idle"
    /\ session' = [session EXCEPT ![r] = NoSession]
    /\ current_user' = NoUser
    /\ lastOp' = "logout"
    /\ ret' = Ret(TRUE, NoId)
    /\ UNCHANGED <<store, hist, web, other,
                   connected_clients, update_queue, delivered>>

\* POST /add
WebAdd(r, in) ==
    /\ pc[r] = "idle"
    /\ IF LoginRequired(r) THEN Add(in) ELSE Refused

\* GET /delete/<record_id>
WebDelete(r, record_id) ==
    /\ pc[r] = "idle"
    /\ IF AdminRequired(r) THEN Delete(record_id) ELSE Refused

\* POST /bulk_action with action 'delete' and one record id selected
WebBulkDelete(r, record_id) ==
    /\ pc[r] = "idle"
    /\ IF LoginRequired(r) /\ session[r].role = "admin"
       THEN Delete(record_id) ELSE Refused

\* POST /reset_data
WebReset(r) ==
    /\ pc[r] = "idle"
    /\ IF AdminRequired(r) THEN ResetAllData ELSE Refused

\* POST /upload with import_mode 'replace' or 'append'
WebUpload(r, frame, replace_existing) ==
    /\ pc[r] = "idle"
    /\ IF LoginRequired(r) THEN ImportFromExcel(frame, replace_existing) ELSE Refused

\* POST /restore_backup with restore_mode 'replace' or 'append'
WebRestore(r, archive, replace_existing) ==
    /\ pc[r] = "idle"
    /\ IF AdminRequired(r) THEN RestoreFromBackup(archive, replace_existing) ELSE Refused

NextSessions ==
    \/ \E r \in Requests, u \in Users, ok \in BOOLEAN : LoginVerify(r, u, ok)
    \/ \E r \in Requests : LoginRole(r)
    \/ \E r \in Requests : Logout(r)
    \/ \E r \in Requests, in \in AddInputs : WebAdd(r, in)
    \/ \E r \in Requests, id \in IdInputs : WebDelete(r, id)
    \/ \E r \in Requests, id \in IdInputs : WebBulkDelete(r, id)
    \/ \E r \in Requests : WebReset(r)
    \/ \E r \in Requests, f \in FrameInputs, rp \in BOOLEAN : WebUpload(r, f, rp)
    \/ \E r \in Requests, a \in ArchiveInputs, rp \in BOOLEAN : WebRestore(r, a, rp)

SpecSessions == InitFirstRun /\ [][NextSessions]_vars

(***************************************************************************)
(* Real-time updates (app.py): the event stream of /events and             *)
(* broadcast_update.  An update is told apart by its timestamp.            *)
(***************************************************************************)
MaxUpdates == 2

Updates == {[type |-> "record_added", timestamp |-> n] : n \in 1..MaxUpdates}

\* the updates a client's stream has yielded, and those put and not yet taken
Yielded(client_id) == {delivered[client_id][i] : i \in 1..Len(delivered[client_id])}

Queued == {update_queue[i] : i \in 1..Len(update_queue)}

\* GET /events: event_stream adds a fresh client_id and starts a new stream
Connect(client_id) ==
    /\ client_id \notin connected_clients
    /\ connected_clients' = connected_clients \cup {client_id}
    /\ delivered' = [delivered EXCEPT ![client_id] = <<>>]
    /\ lastOp' = "connect"
    /\ UNCHANGED <<store, hist, web, other, ret, current_user, session, update_queue>>

\* GeneratorExit: the client has gone
Disconnect(client_id) ==
    /\ client_id \in connected_clients
    /\ connected_clients' = connected_clients \ {client_id}
    /\ lastOp' = "disconnect"
    /\ UNCHANGED <<store, hist, web, other, ret, current_user, session,
                   update_queue, delivered>>

\* broadcast_update: one put on the one queue, and only with a client
\* connected
BroadcastUpdate(update) ==
    /\ update \notin Queued
    /\ \A cl \in Clients : update \notin Yielded(cl)
    /\ update_queue' = IF connected_clients # {} THEN Append(update_queue, update)
                       ELSE update_queue
    /\ lastOp' = "broadcast"
    /\ UNCHANGED <<store, hist, web, other, ret, current_user, session,
                   connected_clients, delivered>>

\* one turn of a client's loop with the queue not empty: get_nowait takes
\* the head off the queue and the stream yields it
Poll(client_id) ==
    /\ client_id \in connected_clients
    /\ update_queue # <<>>
    /\ delivered' = [delivered EXCEPT ![client_id] = Append(@, Head(update_queue))]
    /\ update_queue' = Tail(update_queue)
    /\ lastOp' = "poll"
    /\ UNCHANGED <<store, hist, web, other, ret, current_user, session,
                   connected_clients>>

NextEvents ==
    \/ \E cl \in Clients : Connect(cl)
    \/ \E cl \in Clients : Disconnect(cl)
    \/ \E u \in Updates : BroadcastUpdate(u)
    \/ \E cl \in Clients : Poll(cl)

\* every connected client's loop comes round again after its sleep
SpecEvents ==
    /\ InitFirstRun
    /\ [][NextEvents]_vars
    /\ \A cl \in Clients : WF_vars(Poll(cl))

(***************************************************************************)
(* A process that stops between two file writes of one call.  The call     *)
(* never returns; the files stay as the writes made so far left them, and  *)
(* a new process constructs the store from them.                           *)
(***************************************************************************)
\* RecordKeeper.__init__ in a new process, from the files rf and cf the
\* stopped one left
StoppedAndReloaded(rf, cf) ==
    LET c == Construct(rf, cf)
    IN /\ records' = c.records
       /\ idc' = c.idc
       /\ recFile' = c.recFile
       /\ ctrFile' = c.ctrFile
       /\ lastOp' = "stopped"
       /\ ret' = Ret(TRUE, NoId)
       /\ hPrevAdd' = 0
       /\ hBulk' = FALSE
       /\ hLoadCtr' = LoadCounter(cf)
       /\ UNCHANGED hIssued
       /\ UNCHANGED <<web, other, app>>

\* add_record stops after save_records and before _save_counter
AddStopped(in) ==
    /\ idc < MaxCounter
    /\ Len(records) < MaxRecords
    /\ LET made == DocumentRecordInit(in.sender, in.subject, in.destination, in.date,
                                      NoId, TRUE, Pending, idc)
       IN StoppedAndReloaded(SaveRecords(Append(records, made.rec)), ctrFile)

\* delete_record of the last record stops after save_records and before the
\* _save_counter of the reset
DeleteStopped(record_id) ==
    LET i == FirstIndex(records, record_id)
    IN /\ i # 0
       /\ Len(RemoveAt(records, i)) = 0
       /\ StoppedAndReloaded(SaveRecords(RemoveAt(records, i)), ctrFile)

\* reset_all_data stops after save_records and before _save_counter
ResetStopped == StoppedAndReloaded(SaveRecords(<<>>), ctrFile)

\* a bulk load stops: in replace mode after the _save_counter of the reset
\* and before the loop, or in either mode once save_records has written
BulkStopped(done, replace_existing, after_save) ==
    /\ done.ctr <= MaxCounter
    /\ Len(done.records) <= MaxRecords
    /\ IF after_save
       THEN /\ done.imported > 0
            /\ StoppedAndReloaded(SaveRecords(BulkKept(records, done, replace_existing)),
                                  IF replace_existing THEN SaveCounter(0) ELSE ctrFile)
       ELSE /\ replace_existing
            /\ StoppedAndReloaded(recFile, SaveCounter(0))

\* import_from_excel stops
ImportStopped(frame, replace_existing, after_save) ==
    /\ MissingColumns(frame.cols) = {}
    /\ BulkStopped(ImportRows(frame.cols, frame.rows,
                              BulkStart(records, idc, replace_existing)),
                   replace_existing, after_save)

\* restore_from_backup stops
RestoreStopped(archive, replace_existing, after_save) ==
    /\ {"backup_info", "records"} \ archive.keys = {}
    /\ BulkStopped(RestoreEntries(archive.entries,
                                  BulkStart(records, idc, replace_existing)),
                   replace_existing, after_save)

NextStopped ==
    \/ \E in \in AddInputs : Add(in)
    \/ \E id \in IdInputs : Delete(id)
    \/ \E f \in FrameInputs, rp \in BOOLEAN : ImportFromExcel(f, rp)
    \/ \E in \in AddInputs : AddStopped(in)
    \/ \E id \in IdInputs : DeleteStopped(id)
    \/ ResetStopped
    \/ \E f \in FrameInputs, rp \in BOOLEAN, after \in BOOLEAN : ImportStopped(f, rp, after)
    \/ \E a \in ArchiveInputs, rp \in BOOLEAN, after \in BOOLEAN :
            RestoreStopped(a, rp, after)

SpecStopped == InitFirstRun /\ [][NextStopped]_vars

(***************************************************************************)
(* Properties.                                                             *)
(***************************************************************************)
\* the numeric suffixes of the ids of a sequence of records or dicts
SuffixesIn(seq) == {Suffix(seq[i].id) : i \in 1..Len(seq)}

\* the highest of them, 0 for an empty sequence
HighestSuffix(seq) ==
    IF seq = <<>> THEN 0
    ELSE CHOOSE n \in SuffixesIn(seq) : \A k \in SuffixesIn(seq) : k <= n

EmptiedByLastOp ==
    \/ lastOp = "reset"
    \/ lastOp = "delete" /\ ret.ok /\ records = <<>>

\* C1: no two records of the in-memory collection have the same numeric id
\* suffix, after any serialized sequence of store operations and reloads
\* that starts from a record file with pairwise distinct suffixes.
C1_UniqueSuffixes ==
    \A i, j \in 1..Len(records) :
        i # j => Suffix(records[i].id) # Suffix(records[j].id)

\* C1 witness: add has issued an id next to a record that was loaded with a
\* legacy id.
C1_Witness ==
    /\ lastOp = "add"
    /\ Len(records) = 2
    /\ records[1].id.label = OldLabel
    /\ ret.id = records[2].id

\* C2 (as claimed): after every completed store operation the integer in
\* the counter file is at least the highest numeric id suffix among the
\* records in the record file.
C2_CounterFileCoversRecordFile ==
    \A i \in 1..Len(recFile.data) :
        Suffix(recFile.data[i].id) <= LoadCounter(ctrFile)

\* C3 (as claimed): construction of the store leaves the counter, in memory
\* and in the counter file, at max(c, m), c being the value the counter
\* file held and m the highest suffix among the loaded ids.
C3_LoadKeepsMaximum ==
    lastOp = "load" =>
        /\ idc = Max(hLoadCtr, HighestSuffix(records))
        /\ LoadCounter(ctrFile) = Max(hLoadCtr, HighestSuffix(records))

\* C4 (as claimed): while the collection never becomes empty and nothing
\* resets or bulk-loads it, add never issues a suffix it has issued before,
\* across add, edit, delete and reloads.
C4_NeverReissues ==
    [][lastOp' = "add" => Suffix(ret'.id) \notin hIssued]_vars

\* C5 (as claimed): with no delete-to-empty, reset, replace-mode bulk load
\* or reload in between, the suffix an add issues is the previous add's
\* suffix plus one, whatever else is interleaved.
C5_ConsecutiveAsClaimed ==
    [][lastOp' = "add" /\ hPrevAdd # 0 => Suffix(ret'.id) = hPrevAdd + 1]_vars

\* C5 (amended): with no delete-to-empty, reset, reload or bulk load of
\* either mode in between, the suffix an add issues is the previous add's
\* suffix plus one, whatever edits and non-emptying deletes are interleaved.
C5_ConsecutiveAdds ==
    [][lastOp' = "add" /\ hPrevAdd # 0 /\ ~hBulk => Suffix(ret'.id) = hPrevAdd + 1]_vars

\* C5 witness: a third add in a row, with a delete between the adds.
C5_Witness ==
    /\ lastOp = "add"
    /\ Cardinality(hIssued) = 3
    /\ Len(records) = 2
    /\ hPrevAdd = Suffix(ret.id)

\* C6: a load that finds a highest suffix m above the counter file's value
\* raises the counter to m, in memory and in the file, and an add that
\* follows the load issues suffix m + 1.
C6_LoadRaisesCounter ==
    /\ [](lastOp = "load" /\ HighestSuffix(records) > hLoadCtr =>
            /\ idc = HighestSuffix(records)
            /\ ctrFile.exists
            /\ LoadCounter(ctrFile) = HighestSuffix(records))
    /\ [][lastOp = "load" /\ HighestSuffix(records) > hLoadCtr /\ lastOp' = "add" =>
            Suffix(ret'.id) = HighestSuffix(records) + 1]_vars

\* C6 witness: a load has found suffix 2 with the counter file at 1.
C6_Witness ==
    /\ lastOp = "load"
    /\ hLoadCtr = 1
    /\ HighestSuffix(records) = 2
    /\ idc = 2

\* C7: when delete removes the last record, or reset_all_data runs, the
\* counter is 0 in memory and in the counter file, and an add that follows
\* issues the id with suffix 001.
C7_EmptyingResets ==
    /\ [](EmptiedByLastOp =>
            idc = 0 /\ ctrFile.exists /\ LoadCounter(ctrFile) = 0)
    /\ [][EmptiedByLastOp /\ lastOp' = "add" => ret'.id = MkId(NewLabel, 1)]_vars

\* C7 witness: a delete has emptied a collection whose counter was above 1.
C7_Witness ==
    /\ lastOp = "delete"
    /\ ret.ok
    /\ records = <<>>
    /\ recFile.data = <<>>
    /\ hLoadCtr = 0
    /\ idc = 0

ValidStatus(status) == status \in {Pending, Completed}

\* C9 (as claimed): every record of the in-memory collection, and every
\* record an operation has just written to the record file, has status
\* Pending or Completed, also after an edit with an arbitrary status value.
C9_StatusAlwaysValid ==
    /\ \A i \in 1..Len(records) : ValidStatus(records[i].status)
    /\ lastOp \in {"add", "edit", "delete", "reset"} /\ ret.ok =>
            \A i \in 1..Len(recFile.data) : ValidStatus(recFile.data[i].status)

FailingOps ==
    {"add", "edit", "delete", "import", "import_replace", "restore", "restore_replace"}

C8_DistinctIdsUnderConcurrency ==
    (\A r \in Requests : pc[r] \in {"idle", "done"}) =>
        \A i, j \in 1..Len(records) : i # j => records[i].id # records[j].id

\* the record file holds exactly the records recs: as many dicts, in the
\* same order, with the same six field values (no file: no records)
HoldsCollection(file, recs) ==
    IF ~file.exists THEN recs = <<>>
    ELSE /\ ~file.corrupt
         /\ Len(file.data) = Len(recs)
         /\ \A i \in 1..Len(recs) :
             /\ file.data[i].id = recs[i].id
             /\ file.data[i].date = recs[i].date
             /\ file.data[i].sender = recs[i].sender
             /\ file.data[i].subject = recs[i].subject
             /\ file.data[i].destination = recs[i].destination
             /\ file.data[i].status = recs[i].status

PersistingOps ==
    {"add", "edit", "delete", "import", "import_replace", "restore",
     "restore_replace", "reset"}

\* C11 (as claimed): after every add, edit, delete, import, restore, reset
\* and legacy-id migration that reports success, the record file holds
\* exactly the in-memory collection.
C11_FileHoldsCollectionAsClaimed ==
    lastOp \in PersistingOps \cup {"migrate"} /\ ret.ok =>
        HoldsCollection(recFile, records)

\* C11 (amended): after every add, edit, delete, import, restore and reset
\* that reports success, and after every legacy-id migration that rewrote
\* at least one id, the record file holds exactly the in-memory collection.
C11_FileHoldsCollection ==
    lastOp \in PersistingOps \cup {"migrate"} /\ ret.ok
        /\ (lastOp = "migrate" => ret.count > 0) =>
        HoldsCollection(recFile, records)

\* C11 witness: a migration has rewritten the legacy id of a loaded record
\* and the record file holds the new id.
C11_Witness ==
    /\ lastOp = "migrate"
    /\ ret.count = 1
    /\ Len(records) = 2
    /\ recFile.data[1].id.label = NewLabel
    /\ HoldsCollection(recFile, records)

\* a row, or an archive entry, that has a sender and a subject
ValidRow(row) ==
    /\ row.sender \notin {Nan, "", " "}
    /\ row.subject \notin {Nan, "", " "}

ValidEntry(entry) ==
    /\ entry.sender \notin {Absent, ""}
    /\ entry.subject \notin {Absent, ""}

HasColumns(frame) == {"sender", "subject"} \subseteq frame.cols

HasBlocks(archive) == {"backup_info", "records"} \subseteq archive.keys

\* C12: an additive import or restore in which no row or entry is valid
\* reports failure and leaves the collection, the counter and the record
\* file as they were.
C12_AdditiveTotalFailure ==
    [][/\ \A f \in AnyFrameInputs :
            (/\ lastOp' = "import"
             /\ HasColumns(f)
             /\ SelectSeq(f.rows, ValidRow) = <<>>
             /\ ImportFromExcel(f, FALSE))
            => ~ret'.ok /\ ~ret'.raised /\ UNCHANGED <<records, idc, recFile>>
       /\ \A a \in AnyArchiveInputs :
            (/\ lastOp' = "restore"
             /\ HasBlocks(a)
             /\ SelectSeq(a.entries, ValidEntry) = <<>>
             /\ RestoreFromBackup(a, FALSE))
            => ~ret'.ok /\ ~ret'.raised /\ UNCHANGED <<records, idc, recFile>>]_vars

\* C12 witness: an additive restore without a valid entry has failed on a
\* store that holds one record.
C12_Witness ==
    /\ lastOp = "restore"
    /\ ret.msg = "no valid records"
    /\ Len(records) = 1
    /\ HoldsCollection(recFile, records)

\* C13: an additive import with at least one valid row reports success; the
\* collection is the previous one followed by one record per valid row in
\* row order, no skipped row has a record, the imported count is the number
\* of valid rows and the error count stays 0.
C13_SkipsInvalidRows ==
    [][\A f \in AnyFrameInputs :
            (/\ lastOp' = "import"
             /\ HasColumns(f)
             /\ SelectSeq(f.rows, ValidRow) # <<>>
             /\ ImportFromExcel(f, FALSE))
            => LET valid == SelectSeq(f.rows, ValidRow)
               IN /\ ret'.ok
                  /\ Len(records') = Len(records) + Len(valid)
                  /\ SubSeq(records', 1, Len(records)) = records
                  /\ \A k \in 1..Len(valid) :
                        /\ records'[Len(records) + k].sender = valid[k].sender
                        /\ records'[Len(records) + k].subject = valid[k].subject
                  /\ ret'.count = Len(valid)
                  /\ ret'.errors = 0]_vars

\* C13 witness: an import of three rows, the second one with a blank
\* subject, has added two records to an empty store.
C13_Witness ==
    /\ lastOp = "import"
    /\ ret.ok
    /\ ret.count = 2
    /\ Len(records) = 2
    /\ records[1].sender = "A"
    /\ records[2].sender = "B"

\* C14: a replace-mode import or restore with k >= 1 valid rows or entries
\* leaves exactly k records, those of the valid rows in source order, with
\* the id suffixes 001 .. k, whatever ids the source carried.
C14_ReplaceRenumbers ==
    [][/\ \A f \in AnyFrameInputs :
            (/\ lastOp' = "import_replace"
             /\ HasColumns(f)
             /\ SelectSeq(f.rows, ValidRow) # <<>>
             /\ ImportFromExcel(f, TRUE))
            => LET valid == SelectSeq(f.rows, ValidRow)
               IN /\ Len(records') = Len(valid)
                  /\ \A k \in 1..Len(valid) :
                        /\ records'[k].id = MkId(NewLabel, k)
                        /\ records'[k].sender = valid[k].sender
                        /\ records'[k].subject = valid[k].subject
       /\ \A a \in AnyArchiveInputs :
            (/\ lastOp' = "restore_replace"
             /\ HasBlocks(a)
             /\ SelectSeq(a.entries, ValidEntry) # <<>>
             /\ RestoreFromBackup(a, TRUE))
            => LET valid == SelectSeq(a.entries, ValidEntry)
               IN /\ Len(records') = Len(valid)
                  /\ \A k \in 1..Len(valid) :
                        /\ records'[k].id = MkId(NewLabel, k)
                        /\ records'[k].sender = valid[k].sender
                        /\ records'[k].subject = valid[k].subject]_vars

\* C14 witness: a replace-mode restore of two valid entries has left the
\* ids 001 and 002 in a store whose counter had reached 3.
C14_Witness ==
    /\ lastOp = "restore_replace"
    /\ ret.ok
    /\ ret.count = 2
    /\ records[1].id = MkId(NewLabel, 1)
    /\ records[2].id = MkId(NewLabel, 2)
    /\ records[2].sender = "B"
    /\ idc = 2

\* C15: an import whose frame lacks the sender or the subject column, and a
\* restore whose archive lacks the backup_info or the records block, report
\* failure in either mode and leave the collection, the counter, the record
\* file and the counter file unchanged.
C15_RefusedWithoutMutation ==
    [][/\ \A f \in AnyFrameInputs, rp \in BOOLEAN :
            (/\ lastOp' \in {"import", "import_replace"}
             /\ ~HasColumns(f)
             /\ ImportFromExcel(f, rp))
            => ~ret'.ok /\ ~ret'.raised /\ UNCHANGED store
       /\ \A a \in AnyArchiveInputs, rp \in BOOLEAN :
            (/\ lastOp' \in {"restore", "restore_replace"}
             /\ ~HasBlocks(a)
             /\ RestoreFromBackup(a, rp))
            => ~ret'.ok /\ ~ret'.raised /\ UNCHANGED store]_vars

\* C15 witness: a replace-mode import has been refused on a store that
\* holds two records.
C15_Witness ==
    /\ lastOp = "import_replace"
    /\ ret.msg = "refused"
    /\ Len(records) = 2
    /\ idc = 2

\* C16 (as claimed): every record of the collection has a non-empty sender
\* and a non-empty subject, whatever field values add, edit, import and
\* restore were called with.
C16_RequiredFieldsNonEmpty ==
    \A i \in 1..Len(records) : records[i].sender # "" /\ records[i].subject # ""

\* C20: edit, delete, mark_as_completed and mark_as_pending called with an
\* id no record has return False without raising and leave the collection,
\* the counter, the record file and the counter file unchanged.
C20_UnknownIdChangesNothing ==
    [][\A id \in AnyIdInputs :
            (/\ lastOp' \in {"edit", "delete", "mark_completed", "mark_pending"}
             /\ \A i \in 1..Len(records) : records[i].id # id
             /\ \/ Delete(id)
                \/ MarkAsCompleted(id)
                \/ MarkAsPending(id)
                \/ \E kw \in AnyEditInputs : Edit(id, kw))
            => ~ret'.ok /\ ~ret'.raised /\ UNCHANGED store]_vars

\* C20 witness: mark_as_pending has returned False on a store that holds
\* two records.
C20_Witness ==
    /\ lastOp = "mark_pending"
    /\ ~ret.ok
    /\ Len(records) = 2

\* the call that has just ended returned a result that reports failure
ReportsFailure == ~ret'.raised /\ ~ret'.ok

\* C17 (as claimed): when the write of the record file or of the counter
\* file fails during add, edit, delete, import, restore or reset_all_data,
\* no exception reaches the caller and the result reports failure.
C17_WriteFailureReported ==
    [][\A w \in Faults \ {NoFault} :
        /\ (\E in \in AddInputs : AddOn(in, w)) => ReportsFailure
        /\ ResetAllDataOn(w) => ReportsFailure
        /\ \A id \in IdInputs :
              (/\ \E i \in 1..Len(records) : records[i].id = id
               /\ w.rec # "ok"
               /\ \/ DeleteOn(id, w)
                  \/ \E kw \in EditInputs : EditAs("edit", id, kw, w))
              => ReportsFailure
        /\ \A f \in FrameInputs, rp \in BOOLEAN :
              (/\ SelectSeq(f.rows, LAMBDA row : Strip(row.subject) # "") # <<>>
               /\ w.rec # "ok"
               /\ ImportFromExcelOn(f, rp, w))
              => ReportsFailure
        /\ \A a \in ArchiveInputs, rp \in BOOLEAN :
              (/\ SelectSeq(a.entries, LAMBDA e : e.sender # Absent) # <<>>
               /\ w.rec # "ok"
               /\ RestoreFromBackupOn(a, rp, w))
              => ReportsFailure]_vars

\* the integer the counter file holds, 0 when it holds none
CounterFileValue ==
    IF ctrFile.exists /\ ctrFile.text # <<>> THEN ParseInt(ctrFile.text) ELSE 0

\* C18: a load that finds the record file corrupt leaves the collection
\* empty and the counter at the value the counter file holds, and the add
\* that follows issues that value plus one.
C18_CorruptFileKeepsCounter ==
    /\ [](lastOp = "load" /\ recFile.corrupt =>
            records = <<>> /\ idc = CounterFileValue)
    /\ [][lastOp = "load" /\ recFile.corrupt /\ lastOp' = "add" =>
            ret'.id = MkId(NewLabel, CounterFileValue + 1)]_vars

\* C18 witness: the store has been loaded over a corrupt record file and a
\* counter file that holds 2.
C18_Witness ==
    /\ lastOp = "load"
    /\ recFile.corrupt
    /\ ctrFile.text = <<2>>
    /\ idc = 2
    /\ records = <<>>

\* a date in the slash, dot or prose notation of earlier versions that
\* names a real calendar day and time
LegacyDate(date) == date.fmt \in {"us_slash", "us_dot", "readable"}

ParseableLegacyDate(date) ==
    /\ LegacyDate(date)
    /\ ValidTime(date.t)
    /\ \/ ValidDate(date.y, date.m, date.d)
       \/ date.fmt # "readable" /\ ValidDate(date.y, date.d, date.m)

\* date new is date old written as YYYY-MM-DD[ HH:MM:SS]
CanonicalOf(new, old) ==
    /\ new.fmt = "iso"
    /\ new.y = old.y
    /\ {new.m, new.d} = {old.m, old.d}
    /\ ValidDate(new.y, new.m, new.d)
    /\ new.t = old.t

\* C19: when a load completes, every record whose persisted date was a
\* parseable legacy date holds its canonical form, in memory and in the
\* record file the load leaves.
C19_LoadRewritesLegacyDates ==
    [][lastOp' = "load" /\ Len(records') = Len(recFile.data) =>
        \A i \in 1..Len(recFile.data) :
            ParseableLegacyDate(recFile.data[i].date) =>
                /\ CanonicalOf(records'[i].date, recFile.data[i].date)
                /\ recFile'.data[i].date = records'[i].date]_vars

\* C19 witness: a load has rewritten "13/7/2025" and the record file holds
\* 2025-07-13.
C19_Witness ==
    /\ lastOp = "load"
    /\ Len(records) = 2
    /\ records[1].date = Date("iso", 2025, 7, 13, FALSE, NoTime)
    /\ recFile.data[1].date = records[1].date

\* C21: an edit, or a mark, on an id a record has changes the fields the
\* call supplies, on the first record with that id only: its id and its
\* other fields, every other record, the order of the collection and the
\* counter stay as they were.
C21_EditChangesOnlySupplied ==
    [][\A id \in EditIdInputs :
       \A kw \in AnyEditInputs \cup {StatusOnly(Completed), StatusOnly(Pending)} :
            (/\ lastOp' \in {"edit", "mark_completed", "mark_pending"}
             /\ \E i \in 1..Len(records) : records[i].id = id
             /\ \/ Edit(id, kw)
                \/ kw = StatusOnly(Completed) /\ MarkAsCompleted(id)
                \/ kw = StatusOnly(Pending) /\ MarkAsPending(id))
            => LET i == CHOOSE k \in 1..Len(records) :
                            /\ records[k].id = id
                            /\ \A j \in 1..(k - 1) : records[j].id # id
                   old == records[i]
                   new == records'[i]
               IN /\ ret'.ok
                  /\ Len(records') = Len(records)
                  /\ \A j \in 1..Len(records) : j # i => records'[j] = records[j]
                  /\ new.id = old.id
                  /\ new.sender = IF kw.sender = Absent THEN old.sender ELSE kw.sender
                  /\ new.subject = IF kw.subject = Absent THEN old.subject ELSE kw.subject
                  /\ new.destination =
                        IF kw.destination = Absent THEN old.destination ELSE kw.destination
                  /\ new.date = IF kw.date = NoChange THEN old.date ELSE kw.date
                  /\ new.status = IF kw.status = Absent THEN old.status ELSE kw.status
                  /\ idc' = idc]_vars

\* C21 witness: mark_as_completed has changed the status of the first of
\* two records that came from an import.
C21_Witness ==
    /\ lastOp = "mark_completed"
    /\ ret.ok
    /\ Len(records) = 2
    /\ records[1].status = Completed
    /\ records[1].sender = "A"
    /\ records[2].status = Pending
    /\ records[2].sender = "B"

\* C22: delete called with an id a record has returns True and removes the
\* first record with that id and nothing else: the other records keep
\* their fields and their order, and the counter changes only when the
\* collection has become empty.
C22_DeleteRemovesExactlyOne ==
    [][\A id \in AnyIdInputs :
            (/\ lastOp' = "delete"
             /\ \E i \in 1..Len(records) : records[i].id = id
             /\ Delete(id))
            => /\ ret'.ok
               /\ Len(records') = Len(records) - 1
               /\ \E i \in 1..Len(records) :
                    /\ records[i].id = id
                    /\ \A j \in 1..(i - 1) : records'[j] = records[j]
                    /\ \A j \in (i + 1)..Len(records) : records'[j - 1] = records[j]
               /\ records' # <<>> => idc' = idc]_vars

\* C22 witness: delete has removed the first of two records and left the
\* one with id 002, the counter staying at 2.
C22_Witness ==
    /\ lastOp = "delete"
    /\ ret.ok
    /\ Len(records) = 1
    /\ records[1].id = MkId(NewLabel, 2)
    /\ idc = 2

\* C23: a record built by a load or by a restore has status Completed when
\* its source carries "Done" or "Completed" and Pending for every other
\* source value, a missing one included; a record built by add or by an
\* import has status Pending.
C23_StatusFromSource ==
    [][LET StatusFor(st) ==
                IF st = "Done" \/ st = "Completed" THEN "Completed" ELSE "Pending"
       IN /\ (lastOp' = "load" /\ recFile.exists /\ ~recFile.corrupt)
            => /\ Len(records') = Len(recFile.data)
               /\ \A i \in 1..Len(records') :
                    records'[i].status = StatusFor(recFile.data[i].status)
          /\ \A a \in StatusArchiveInputs, rp \in BOOLEAN :
                (/\ lastOp' \in {"restore", "restore_replace"}
                 /\ RestoreFromBackup(a, rp)
                 /\ ret'.ok)
                => /\ ret'.count = 1
                   /\ records'[Len(records')].status = StatusFor(a.entries[1].status)
          /\ (lastOp' = "add" /\ ret'.ok)
            => records'[Len(records')].status = "Pending"
          /\ (lastOp' \in {"import", "import_replace"} /\ ret'.ok)
            => \A k \in 1..ret'.count :
                    records'[Len(records') + 1 - k].status = "Pending"]_vars

\* C23 witness: a load has built a Pending record from a file entry whose
\* status is a value the constructor does not know.
C23_Witness ==
    /\ lastOp = "load"
    /\ Len(records) = 1
    /\ recFile.exists
    /\ Len(recFile.data) = 1
    /\ recFile.data[1].status = "Archived"
    /\ records[1].status = Pending

\* C24: in an import, a row whose cells raise while they are read is
\* counted as an error and gets no record, and the rows after it are still
\* read: every valid row, before or after it, gets its record, in row
\* order.
C24_RaisingRowCounted ==
    [][\A f \in RaisingFrameInputs :
            (/\ lastOp' = "import"
             /\ ImportFromExcel(f, FALSE))
            => LET Raises(row) == row.sender = Unreadable \/ row.date = DateUnreadable
                   Imported(row) == ~Raises(row) /\ ValidRow(row)
                   valid == SelectSeq(f.rows, Imported)
               IN IF valid = <<>>
                  THEN ~ret'.ok /\ records' = records
                  ELSE /\ ret'.ok
                       /\ ret'.errors = Len(SelectSeq(f.rows, Raises))
                       /\ ret'.count = Len(valid)
                       /\ Len(records') = Len(records) + Len(valid)
                       /\ SubSeq(records', 1, Len(records)) = records
                       /\ \A k \in 1..Len(valid) :
                            /\ records'[Len(records) + k].sender = valid[k].sender
                            /\ records'[Len(records) + k].subject = valid[k].subject]_vars

\* C24 witness: an import of three rows whose second row raised has added
\* the first and the third row and counted one error.
C24_Witness ==
    /\ lastOp = "import"
    /\ ret.ok
    /\ ret.errors = 1
    /\ ret.count = 2
    /\ Len(records) = 2
    /\ records[1].sender = "A"
    /\ records[2].sender = "B"

\* C25: an import never stamps a record with the current time: the record
\* of a row without date column, with an empty date cell or with a date
\* cell of blanks has the date "No Date".  An add called without date
\* stamps the record with the current time.
C25_ImportHasNoAutoDate ==
    [][/\ \A f \in UndatedFrameInputs, rp \in BOOLEAN :
            (/\ lastOp' \in {"import", "import_replace"}
             /\ ImportFromExcel(f, rp)
             /\ ret'.ok)
            => LET valid == SelectSeq(f.rows, ValidRow)
                   base == Len(records') - Len(valid)
               IN /\ ret'.count = Len(valid)
                  /\ \A k \in 1..Len(valid) :
                        ("date" \notin f.cols \/ valid[k].date \in {DateNan, DateBlank})
                        => /\ records'[base + k].date = NoDate
                           /\ records'[base + k].date # Now
       /\ \A in \in AddInputs :
            (/\ lastOp' = "add"
             /\ in.date = DateNone
             /\ Add(in)
             /\ ret'.ok)
            => records'[Len(records')].date = Now]_vars

\* C25 witness: an import has given "No Date" to the record of a row
\* without date, behind a record that carries a time.
C25_Witness ==
    /\ lastOp = "import"
    /\ ret.ok
    /\ Len(records) = 2
    /\ records[1].date = Now
    /\ records[2].date = NoDate

\* C26: the date normalisation maps a valid date written month first with
\* slashes or dots, or written year first, to the same canonical text
\* YYYY-MM-DD, followed by the time when there is one other than midnight:
\* "01/07/2025" and "2025-01-07" both give "2025-01-07".  A text that is
\* no valid date in either order, such as "13/40/2025", is returned as it
\* is.  The normalisation is observed in the date of the imported record.
C26_NormalizeCanonical ==
    [][\A date \in NormalizeInputs :
            (/\ lastOp' = "import_replace"
             /\ ImportFromExcel(DateFrame(date), TRUE))
            => LET out == records'[1].date
                   timeOk == date.t[1] < 24 /\ date.t[2] < 60 /\ date.t[3] < 60
               IN /\ ret'.ok
                  /\ (/\ date.fmt \in {"us_slash", "us_dot", "iso"}
                      /\ ValidDate(date.y, date.m, date.d)
                      /\ timeOk)
                     => out = [fmt |-> "iso", y |-> date.y, m |-> date.m, d |-> date.d,
                               ht |-> (date.t # NoTime), t |-> date.t]
                  /\ (\/ ~ValidDate(date.y, date.m, date.d)
                         /\ ~ValidDate(date.y, date.d, date.m)
                      \/ ~timeOk)
                     => out = date]_vars

\* C26 witness: the import of a row dated "13/40/2025" has left a record
\* with that very date.
C26_Witness ==
    /\ lastOp = "import_replace"
    /\ ret.ok
    /\ Len(records) = 1
    /\ records[1].date = Date("us_slash", 2025, 13, 40, FALSE, NoTime)

\* the records of recs at the positions idx, in the order of recs
RecordsAt(recs, idx) ==
    [n \in 1..Cardinality(idx) |->
        recs[CHOOSE i \in idx : Cardinality({j \in idx : j <= i}) = n]]

\* C27: search with a non-empty query returns the records in which the
\* query occurs, letter case ignored, in the id, the date, the sender, the
\* subject or the destination, in collection order; with the empty query
\* it returns every record in collection order; it leaves the collection,
\* the counter and both files as they were.
C27_SearchReturnsMatches ==
    [][lastOp' = "search" =>
        LET query == ret'.args[1]
            Fold(c) == IF c \in 97..122 THEN c - 32 ELSE c
            Occurs(text) ==
                \E k \in 1..(Len(text) - Len(query) + 1) :
                    \A j \in 1..Len(query) : Fold(text[k + j - 1]) = Fold(query[j])
            Matches(r) ==
                \E text \in {IdText(r.id), DateText(r.date), FieldText(r.sender),
                              FieldText(r.subject), FieldText(r.destination)} :
                    Occurs(text)
            hits == {i \in 1..Len(records) : query = <<>> \/ Matches(records[i])}
        IN /\ ret'.value = RecordsAt(records, hits)
           /\ UNCHANGED <<records, idc, recFile, ctrFile>>]_vars

\* C27 witness: search("alic") has returned the second of two records,
\* whose sender is Alice, and not the first, which has no sender.
C27_Witness ==
    /\ lastOp = "search"
    /\ ret.args = <<(<<97, 108, 105, 99>>)>>
    /\ Len(records) = 2
    /\ records[1].sender = ""
    /\ Len(ret.value) = 1
    /\ ret.value[1] = records[2]
    /\ ret.value[1].sender = "Alice"

\* C28: the date range query returns, in collection order, the records
\* whose date up to its first space lies between start and end in string
\* order, both included: a record dated on the start day or on the end
\* day is returned whether or not its date has a time.
C28_DateRangeInclusive ==
    [][lastOp' = "date_range" =>
        LET start == ret'.args[1]
            end == ret'.args[2]
            Leq(a, b) ==
                \/ a = b
                \/ \E k \in 1..Len(b) :
                        /\ k <= Len(a) + 1
                        /\ \A j \in 1..(k - 1) : a[j] = b[j]
                        /\ k = Len(a) + 1 \/ a[k] < b[k]
            DayOf(text) ==
                CHOOSE d \in {SubSeq(text, 1, n) : n \in 0..Len(text)} :
                    /\ \A j \in 1..Len(d) : d[j] # 32
                    /\ Len(d) = Len(text) \/ text[Len(d) + 1] = 32
            hits == {i \in 1..Len(records) :
                        /\ Leq(start, DayOf(DateText(records[i].date)))
                        /\ Leq(DayOf(DateText(records[i].date)), end)}
        IN /\ ret'.value = RecordsAt(records, hits)
           /\ UNCHANGED <<records, idc, recFile, ctrFile>>]_vars

\* C28 witness: the range from "2025-01-07" to "2025-01-07" has returned
\* the record dated "2025-01-07 10:00:00" and not the one dated
\* "2025-01-08".
C28_Witness ==
    /\ lastOp = "date_range"
    /\ ret.args[1] = ret.args[2]
    /\ Len(records) = 2
    /\ records[1].date = Date("iso", 2025, 1, 8, FALSE, NoTime)
    /\ records[2].date = Now
    /\ ret.value = <<records[2]>>

\* C29: the statistics are those of the collection as it is when they are
\* asked for: the number of records, the numbers of Pending and of
\* Completed records, the distinct non-empty senders and destinations and
\* how many there are; all of them 0 or empty on an empty collection.  The
\* call leaves the collection, the counter and both files as they were.
C29_StatisticsOfCurrent ==
    [][lastOp' = "statistics" =>
        LET st == ret'.value
            idx == 1..Len(records)
            senders == {records[i].sender : i \in idx} \ {""}
            destinations == {records[i].destination : i \in idx} \ {""}
        IN /\ st.total_records = Len(records)
           /\ st.pending_count = Cardinality({i \in idx : records[i].status = "Pending"})
           /\ st.completed_count =
                Cardinality({i \in idx : records[i].status = "Completed"})
           /\ st.senders = senders
           /\ st.destinations = destinations
           /\ st.unique_senders = Cardinality(senders)
           /\ st.unique_destinations = Cardinality(destinations)
           /\ records = <<>> =>
                /\ st.total_records = 0
                /\ st.pending_count = 0 /\ st.completed_count = 0
                /\ st.unique_senders = 0 /\ st.unique_destinations = 0
                /\ st.senders = {} /\ st.destinations = {}
           /\ UNCHANGED <<records, idc, recFile, ctrFile>>]_vars

\* C29 witness: the statistics of two records, one completed with sender
\* Alice and one pending without sender, asked for after the first record
\* was marked completed.
C29_Witness ==
    /\ lastOp = "statistics"
    /\ Len(records) = 2
    /\ records[1].status = Completed
    /\ records[2].sender = ""
    /\ ret.value.total_records = 2
    /\ ret.value.completed_count = 1
    /\ ret.value.pending_count = 1
    /\ ret.value.unique_senders = 1

\* C30: the id migration gives every id with the old label the current
\* label and the same digits, leaves the ids with the current label and
\* every other field of every record as they were, and changes nothing
\* when it is run again right after itself.
C30_MigrationKeepsSuffix ==
    [][lastOp' = "migrate" =>
        /\ Len(records') = Len(records)
        /\ \A i \in 1..Len(records) :
            /\ records'[i].id.digits = records[i].id.digits
            /\ records'[i].id.label = NewLabel
            /\ records[i].id.label = NewLabel => records'[i].id = records[i].id
            /\ records'[i].date = records[i].date
            /\ records'[i].sender = records[i].sender
            /\ records'[i].subject = records[i].subject
            /\ records'[i].destination = records[i].destination
            /\ records'[i].status = records[i].status
        /\ lastOp = "migrate" => UNCHANGED <<records, idc, recFile, ctrFile>>]_vars

\* C30 witness: the migration has rewritten the id of the one record, from
\* the old label to the current label with the suffix 002.
C30_Witness ==
    /\ lastOp = "migrate"
    /\ ret.count = 1
    /\ Len(records) = 1
    /\ records[1].id = MkId(NewLabel, 2)
    /\ recFile.data[1].id = MkId(NewLabel, 2)

\* C31: with two instances alive in one process, an operation on one of
\* them leaves the counter the other one issues its ids from, and so the
\* id the other one issues next, as they were.
C31_InstancesIndependent ==
    [][/\ lastOp' \in {"add", "delete", "import", "reset"}
            => CounterUsedBy(2)' = CounterUsedBy(2)
       /\ lastOp' \in {"construct2", "add2"}
            => CounterUsedBy(1)' = CounterUsedBy(1)]_vars

\* C32: a request whose session role is not admin removes no record: after
\* a single delete, a bulk delete, a data reset, a replace-mode upload or a
\* replace-mode restore asked for by such a session, every record that was
\* in the collection is still in it.
C32_OnlyAdminRemoves ==
    [][\A r \in Requests :
        (/\ session[r].role # "admin"
         /\ \/ \E id \in IdInputs : WebDelete(r, id) \/ WebBulkDelete(r, id)
            \/ WebReset(r)
            \/ \E f \in FrameInputs : WebUpload(r, f, TRUE)
            \/ \E a \in ArchiveInputs : WebRestore(r, a, TRUE))
        => \A i \in 1..Len(records) :
                \E j \in 1..Len(records') : records'[j] = records[i]]_vars

\* C33: the role a login has stored in a session is the role of the user
\* whose name and password that login verified; in particular the session
\* of the user named user never holds the role admin.
C33_SessionRoleIsOwn ==
    \A r \in Requests :
        (session[r].username # Absent /\ session[r].role # Absent)
            => session[r].role = RoleOf(session[r].username)

\* C34: an update passed to broadcast_update while a client is connected is
\* eventually yielded by that client's stream, unless the client goes; so
\* with two clients connected no update reaches one of them only.
C34_EveryClientReceives ==
    \A cl \in Clients, u \in Updates :
        (/\ lastOp = "broadcast"
         /\ cl \in connected_clients
         /\ update_queue # <<>>
         /\ update_queue[Len(update_queue)] = u)
            ~> (cl \notin connected_clients \/ u \in Yielded(cl))

\* C35: after every serialized operation of one store (load, add, edit,
\* delete, import, restore, reset, id migration) the in-memory counter is at
\* least the highest numeric id suffix of the in-memory collection.
C35_CounterCoversCollection ==
    \A i \in 1..Len(records) : idc >= Suffix(records[i].id)

\* C35 witness: an additive restore has appended a record to a loaded one
\* whose suffix is above the number of records, and the counter equals the
\* highest suffix.
C35_Witness ==
    /\ lastOp = "restore"
    /\ ret.ok
    /\ Len(records) = 2
    /\ Suffix(records[1].id) = 2
    /\ idc = HighestSuffix(records)

\* C36: when the last call was a successful add, edit, delete, import or
\* restore, a new store constructed from the persisted files holds the
\* collection that was in memory: the same records in the same order, equal
\* in id, date, sender, subject, destination and status.
C36_ReloadEqualsMemory ==
    [][(/\ lastOp \in {"add", "edit", "delete", "import", "import_replace",
                       "restore", "restore_replace"}
        /\ ret.ok
        /\ lastOp' = "load")
            => records' = records]_vars

\* C37: when a process has stopped between two file writes of a call and
\* the store has been loaded again from the files, the id the next add
\* issues differs from the id of every record of the reloaded collection.
C37_NoReissueAfterStop ==
    [][(lastOp = "stopped" /\ lastOp' = "add")
            => \A i \in 1..Len(records) : ret'.id # records[i].id]_vars

\* C37 witness: a process stopped with a record in the record file whose
\* suffix the counter file did not cover; the reloaded store holds that
\* record, has the counter at the highest suffix and can add.
C37_Witness ==
    /\ lastOp = "stopped"
    /\ records # <<>>
    /\ hLoadCtr < HighestSuffix(records)
    /\ idc = HighestSuffix(records)
    /\ idc < MaxCounter
    /\ Len(records) < MaxRecords

====
